---- MODULE Spec2Model ----
(***************************************************************************)
(* State-machine model of services/rpcManager.js: the multi-chain RPC      *)
(* pool (endpoint selection under a per-endpoint rate counter, the retry   *)
(* executor and the health monitor).                                       *)
(*                                                                         *)
(* Time.  The code reads Date.now() and only ever compares a stored        *)
(* timestamp t with the current instant (now - t >= 1000,                  *)
(* now - t < healthCheckInterval / 2).  The model measures time from the   *)
(* current instant: Now is 0, a stored timestamp is the (non-positive)     *)
(* offset t - now, and Tick(d) moves every stored timestamp d ms into the  *)
(* past.  A timestamp older than the largest threshold it is compared      *)
(* with is kept at that threshold (the code cannot tell them apart).       *)
(*                                                                         *)
(* Strings.  Error messages and header values are sequences of             *)
(* one-character strings, so that String.includes, the /(\d+)/ match and   *)
(* parseInt are computed as the code computes them.                        *)
(***************************************************************************)
EXTENDS Integers, Sequences, FiniteSets, TLC

\* ------------------------------------------------------------------ bounds

\* requestCount is never reset by the code; selections stop at this value.
MaxRequestCount == 5
\* errorCount grows with every failed probe; probes stop failing at this value.
MaxErrorCount == 5
\* Nested getBestRPC calls the runtime's call stack holds before RangeError.
StackLimit == 3
\* executeWithRetry is called with maxRetries in 1..MaxMaxRetries.
MaxMaxRetries == 3
\* the descriptors addRPC may bring a chain's configuration to
MaxConfigs == 3
\* the confirmations a chat creates
MaxConfirmations == 2
\* the buy orders a chat executes
MaxExecutions == 2

\* ------------------------------------------------------- program constants

\* canMakeRequest: "Reset counter every second".
RateWindow == 1000
\* constructor: this.healthCheckInterval.
healthCheckInterval == 120000
\* performHealthCheck: "Only mark as unhealthy after 5 consecutive failures".
UnhealthyThreshold == 5
\* handleRateLimit: default wait, and the clamp "Min 5s, Max 60s".
DefaultWait == 5000
MinWait == 5000
MaxWait == 60000
\* executeWithRetry: the default value of maxRetries.
DefaultMaxRetries == 3
\* rpcConfigs / addRPC: maxRequestsPerSecond of every configured endpoint.
DefaultCapacity == 5
\* performHealthCheck: pause between two chains.
ChainPause == 1000
\* the age beyond which the middleware clears a session, in ms
SessionLifetime == 3600000
\* the time for which a confirmation prompt can be answered, in ms
ConfirmationLifetime == 60000

\* The current instant, Date.now(), in the model's frame of reference.
Now == 0

\* ----------------------------------------------------------------- strings

DigitChars == {"0", "1", "2", "3", "4", "5", "6", "7", "8", "9"}

DigitVal(c) ==
  CASE c = "0" -> 0 [] c = "1" -> 1 [] c = "2" -> 2 [] c = "3" -> 3
    [] c = "4" -> 4 [] c = "5" -> 5 [] c = "6" -> 6 [] c = "7" -> 7
    [] c = "8" -> 8 [] c = "9" -> 9

\* String.prototype.includes
includes(s, sub) ==
  \E i \in 1..(Len(s) - Len(sub) + 1) : SubSeq(s, i, i + Len(sub) - 1) = sub

\* a JavaScript number as far as the code needs it: an integer or NaN
Num(n) == [nan |-> FALSE, v |-> n]
NaN == [nan |-> TRUE, v |-> 0]

RECURSIVE DigitsValue(_, _)
\* value of the decimal digits s, continuing the accumulated value acc
DigitsValue(s, acc) ==
  IF s = <<>> THEN acc ELSE DigitsValue(Tail(s), acc * 10 + DigitVal(Head(s)))

RECURSIVE DigitPrefix(_)
\* the longest prefix of s made of digits
DigitPrefix(s) ==
  IF s = <<>> \/ Head(s) \notin DigitChars THEN <<>>
  ELSE <<Head(s)>> \o DigitPrefix(Tail(s))

RECURSIVE SkipSpaces(_)
SkipSpaces(s) ==
  IF s # <<>> /\ Head(s) = " " THEN SkipSpaces(Tail(s)) ELSE s

\* parseInt(s): leading white space, an optional sign, then decimal digits;
\* NaN when no digit follows.
parseInt(s) ==
  LET t == SkipSpaces(s)
      neg == t # <<>> /\ Head(t) = "-"
      u == IF t # <<>> /\ Head(t) \in {"-", "+"} THEN Tail(t) ELSE t
      d == DigitPrefix(u)
  IN IF d = <<>> THEN NaN
     ELSE Num(IF neg THEN 0 - DigitsValue(d, 0) ELSE DigitsValue(d, 0))

RECURSIVE FirstDigits(_)
\* message.match(/(\d+)/): the first maximal run of digits, <<>> for no match
FirstDigits(s) ==
  IF s = <<>> THEN <<>>
  ELSE IF Head(s) \in DigitChars THEN DigitPrefix(s)
  ELSE FirstDigits(Tail(s))

\* ----------------------------------------------------------- configuration

Chains == <<"solana", "ethereum">>

ChainSet == {Chains[i] : i \in 1..Len(Chains)}

\* this.rpcConfigs, with the priorities pa and pb of the two ethereum endpoints
Configs(pa, pb) ==
  [solana |-> << [url |-> "urlS", priority |-> 1,
                  maxRequestsPerSecond |-> DefaultCapacity] >>,
   ethereum |-> << [url |-> "urlA", priority |-> pa,
                    maxRequestsPerSecond |-> DefaultCapacity],
                   [url |-> "urlB", priority |-> pb,
                    maxRequestsPerSecond |-> DefaultCapacity] >>]

\* this.rpcConfigs as the constructor sets it (lines 15-34): one endpoint per
\* chain, all of priority 1
SourceConfigs ==
  [solana |-> << [url |-> "urlS", priority |-> 1,
                  maxRequestsPerSecond |-> DefaultCapacity] >>,
   ethereum |-> << [url |-> "urlA", priority |-> 1,
                    maxRequestsPerSecond |-> DefaultCapacity] >>]

Urls == {"urlS", "urlA", "urlB"}

Priorities == {1, 2}

VARIABLES
  rpcConfigs,        \* this.rpcConfigs: chain -> sequence of descriptors
  connections,       \* this.connections: chain -> sequence of endpoints
  requestCounters,   \* this.requestCounters: url -> {count, lastReset}
  failedRPCs,        \* this.failedRPCs: set of urls
  lastHealthCheck,   \* this.lastHealthCheck
  initialized,       \* this.initialized
  calls,             \* caller -> its executeWithRetry call: position and locals
  monitor,           \* the performHealthCheck cycle: position and locals
  lastCall,          \* the latest getBestRPC call of an outside caller and
                     \* its outcome
  probeFailures,     \* url -> failed probes since its last probe or request
                     \* success
  selections,        \* url -> timestamps of its selections of the last second
  serviceManager,    \* the ServiceManager: services, dependencies, initialized,
                     \* initializing
  tasks,             \* caller of the ServiceManager -> its call: position and
                     \* locals
  events,            \* what the service instances have seen so far
  session,           \* ctx.session of one chat of the bot
  sessionOp,         \* the latest operation on the session and its arguments
  bot                \* the confirmations of the chat: what is pending, the
                     \* handlers under way and what they have executed

\* the ServiceManager and its callers
managerVars == <<serviceManager, tasks, events>>

\* the session of the bot and its confirmations, but for their age
sessionVars == <<session, sessionOp, bot>>

\* the RPCManager and its callers
rpcVars == <<rpcConfigs, connections, requestCounters, failedRPCs,
             lastHealthCheck, initialized, calls, monitor, lastCall,
             probeFailures, selections>>

vars == <<rpcConfigs, connections, requestCounters, failedRPCs,
          lastHealthCheck, initialized, calls, monitor, lastCall,
          probeFailures, selections, serviceManager, tasks, events, session,
          sessionOp, bot>>

Callers == {"p1", "p2"}

\* -------------------------------------------------------------- initialize

\* The epoch (the timestamp 0 of the code), seen from the current instant: it
\* lies further back than the horizon up to which the timestamp is told apart.
Epoch(horizon) == 0 - horizon

Max(a, b) == IF a >= b THEN a ELSE b
Min(a, b) == IF a <= b THEN a ELSE b

\* the endpoint pushed for a descriptor whose connection handle was created;
\* the handle is identified by the url it was created for.  The field
\* lastUsed is left out: the code writes it (line 150) and never reads it.
NewEndpoint(config) ==
  [url |-> config.url, priority |-> config.priority,
   maxRequestsPerSecond |-> config.maxRequestsPerSecond,
   connection |-> config.url, healthy |-> TRUE, requestCount |-> 0,
   errorCount |-> 0]

RECURSIVE CreatedEndpoints(_, _)
\* the inner loop of initialize over one chain's descriptors: created is the
\* set of urls for which new Connection / new JsonRpcProvider does not throw
CreatedEndpoints(configs, created) ==
  IF configs = <<>> THEN <<>>
  ELSE (IF Head(configs).url \in created THEN <<NewEndpoint(Head(configs))>>
        ELSE <<>>) \o CreatedEndpoints(Tail(configs), created)

ConfigUrls(cfg) ==
  UNION {{cfg[c][i].url : i \in 1..Len(cfg[c])} : c \in DOMAIN cfg}

\* the state initialize() leaves behind
initialize(cfg, created) ==
  [connections |-> [c \in DOMAIN cfg |-> CreatedEndpoints(cfg[c], created)],
   requestCounters |->
     [u \in ConfigUrls(cfg) \cap created |-> [count |-> 0, lastReset |-> Now]],
   failedRPCs |-> ConfigUrls(cfg) \ created]

\* an error object: its code, its message and its retry-after header
\* (an absent message or header is the empty string)
Err(code, message, retryAfter) ==
  [code |-> code, message |-> message, retryAfter |-> retryAfter]

NoError == Err("undefined", <<>>, <<>>)

\* a caller that has no executeWithRetry call under way
IdleCall ==
  [pc |-> "idle", chain |-> "none", maxRetries |-> 0, attempt |-> 0,
   rpc |-> "none", lastError |-> NoError, sleepMs |-> Num(0), timer |-> 0,
   opCalls |-> 0, selFails |-> 0, slept |-> 0, rlOnly |-> TRUE,
   hintsParse |-> TRUE, failedInFlight |-> FALSE]

IdleMonitor == [pc |-> "idle", chain |-> 0, active |-> 0, timer |-> 0]

NoCall ==
  [chain |-> "none", outcome |-> "none", url |-> "none", clears |-> 0,
   allFailed |-> FALSE]

\* ------------------------------------------- the other objects, as constructed

\* the services a ServiceManager registers, and its callers
Names == {"a", "b", "c"}
Tasks == {"t1", "t2"}

\* the ServiceManager after its constructor (lines 5-13); instances holds the
\* names whose serviceInfo has its instance and initialized fields set
NewServiceManager ==
  [services |-> <<>>, dependencies |-> <<>>, instances |-> {},
   initialized |-> {}, initializing |-> {}]

\* a caller with no call under way
IdleTask ==
  [pc |-> "idle", kind |-> "none", stack |-> <<>>, order |-> <<>>, idx |-> 0,
   error |-> "none"]

\* nothing has been initialized or shut down yet
NoEvents ==
  [completed |-> [n \in Names |-> 0], early |-> {}, shutdowns |-> <<>>,
   shutdownErrors |-> {}]

\* a session that has outlived its lifetime, as any session does in the end
ExpiredSession ==
  [state |-> "idle", data |-> <<>>, timestamp |-> Epoch(SessionLifetime + 1)]

NoSessionOp == [op |-> "none", state |-> "idle", data |-> <<>>]

\* the RPCManager after its constructor, on the configuration cfg
InitRPCManager(cfg, created) ==
  LET st == initialize(cfg, created)
  IN /\ rpcConfigs = cfg
     /\ connections = st.connections
     /\ requestCounters = st.requestCounters
     /\ failedRPCs = st.failedRPCs
     /\ lastHealthCheck = Epoch(healthCheckInterval \div 2)
     /\ initialized = TRUE
     /\ calls = [p \in Callers |-> IdleCall]
     /\ monitor = IdleMonitor
     /\ lastCall = NoCall
     /\ probeFailures = [u \in Urls |-> 0]
     /\ selections = [u \in Urls |-> <<>>]

\* the handlers of the updates of one chat that can be under way together
Handlers == {"h1", "h2"}

\* no confirmation: pendingWithdrawal is null, no buy prompt is shown
NoConfirmation == [id |-> 0, createdAt |-> 0, expiresAt |-> 0]

\* a handler that handles no update
IdleHandler == [pc |-> "idle", id |-> 0, age |-> 0, text |-> "none"]

\* a chat without confirmations: no handler under way, nothing executed
NewBot ==
  [awaitingWithdrawalConfirmation |-> FALSE,
   pendingWithdrawal |-> NoConfirmation, created |-> 0,
   handlers |-> [h \in Handlers |-> IdleHandler], sent |-> <<>>,
   buyPrompt |-> NoConfirmation, executed |-> <<>>]

\* the session of a chat that has not been seen for long
InitSession ==
  /\ session = ExpiredSession
  /\ sessionOp = NoSessionOp
  /\ bot = NewBot

InitWith(cfg, created) ==
  /\ InitRPCManager(cfg, created)
  /\ serviceManager = NewServiceManager
  /\ tasks = [t \in Tasks |-> IdleTask]
  /\ events = NoEvents
  /\ InitSession

\* ------------------------------------------------------------ rate counter

\* safeLimit without the 80% margin
safeLimitFull(maxRequestsPerSecond) == maxRequestsPerSecond

\* Math.floor(maxRequestsPerSecond * 0.8)
safeLimit(maxRequestsPerSecond) == (maxRequestsPerSecond * 8) \div 10

\* canMakeRequest(url, maxRequestsPerSecond) on the counters map: the answer
\* and the map it leaves (the once-per-second reset is a side effect)
canMakeRequest(counters, url, maxRequestsPerSecond) ==
  IF url \notin DOMAIN counters THEN [allowed |-> TRUE, counters |-> counters]
  ELSE LET counter == counters[url]
           timeSinceReset == Now - counter.lastReset
       IN IF timeSinceReset >= RateWindow
          THEN [allowed |-> TRUE,
                counters |-> [counters EXCEPT
                                ![url] = [count |-> 0, lastReset |-> Now]]]
          ELSE [allowed |-> counter.count < safeLimit(maxRequestsPerSecond),
                counters |-> counters]

updateRequestCounter(counters, url) ==
  IF url \in DOMAIN counters
  THEN [counters EXCEPT ![url].count = @ + 1]
  ELSE counters

\* ---------------------------------------------------------------- selection

RECURSIVE FilterHealthy(_, _, _, _)
\* connections.filter(conn => conn.healthy && !failedRPCs.has(conn.url) &&
\* canMakeRequest(...)) from position i on: the positions kept, and the
\* counters map after the canMakeRequest calls the && chain reached
FilterHealthy(conns, i, counters, failed) ==
  IF i > Len(conns) THEN [kept |-> <<>>, counters |-> counters]
  ELSE LET conn == conns[i]
       IN IF conn.healthy /\ conn.url \notin failed
          THEN LET r == canMakeRequest(counters, conn.url,
                                       conn.maxRequestsPerSecond)
                   rest == FilterHealthy(conns, i + 1, r.counters, failed)
               IN [kept |-> (IF r.allowed THEN <<i>> ELSE <<>>) \o rest.kept,
                   counters |-> rest.counters]
          ELSE FilterHealthy(conns, i + 1, counters, failed)

\* the comparator with the usage compared before the priority
compareUsageFirst(a, b) ==
  IF a.requestCount # b.requestCount THEN a.requestCount - b.requestCount
  ELSE a.priority - b.priority

\* the comparator of healthyConnections.sort
compare(a, b) ==
  IF a.priority # b.priority THEN a.priority - b.priority
  ELSE a.requestCount - b.requestCount

RECURSIVE InsertSorted(_, _, _)
\* x placed behind every element of the sorted list that does not come after it
InsertSorted(conns, sorted, x) ==
  IF sorted = <<>> THEN <<x>>
  ELSE IF compare(conns[Head(sorted)], conns[x]) <= 0
       THEN <<Head(sorted)>> \o InsertSorted(conns, Tail(sorted), x)
       ELSE <<x>> \o sorted

RECURSIVE SortByPriorityAndUsage(_, _)
\* Array.prototype.sort with the comparator above (a stable sort)
SortByPriorityAndUsage(conns, kept) ==
  IF kept = <<>> THEN <<>>
  ELSE InsertSorted(conns,
                    SortByPriorityAndUsage(conns, SubSeq(kept, 1, Len(kept) - 1)),
                    kept[Len(kept)])

\* lines 149-151: the usage statistics of the selected endpoint
RecordSelection(conns, i) ==
  [conns EXCEPT ![i].requestCount = @ + 1]

RECURSIVE getBestRPC(_, _, _, _, _, _)
\* getBestRPC(chain) in the nested call number depth, on the pool conn, the
\* counters and the failed set: the outcome, the position selected and the
\* state left behind; clears counts the circuit-breaker resets performed
getBestRPC(chain, conn, counters, failed, init, depth) ==
  IF ~init \/ chain \notin DOMAIN conn
  THEN [outcome |-> "NotInitialized", sel |-> 0, connections |-> conn,
        counters |-> counters, failed |-> failed, clears |-> 0]
  ELSE LET f == FilterHealthy(conn[chain], 1, counters, failed)
       IN IF f.kept = <<>>
          THEN IF Cardinality(failed) >= Len(conn[chain])
               THEN IF depth >= StackLimit
                    THEN [outcome |-> "RangeError", sel |-> 0,
                          connections |-> conn, counters |-> f.counters,
                          failed |-> {}, clears |-> 1]
                    ELSE LET r == getBestRPC(chain, conn, f.counters, {},
                                             init, depth + 1)
                         IN [r EXCEPT !.clears = @ + 1]
               ELSE [outcome |-> "NoHealthy", sel |-> 0, connections |-> conn,
                     counters |-> f.counters, failed |-> failed, clears |-> 0]
          ELSE LET selected == SortByPriorityAndUsage(conn[chain], f.kept)[1]
                   url == conn[chain][selected].url
               IN [outcome |-> "ok", sel |-> selected,
                   connections |->
                     [conn EXCEPT ![chain] = RecordSelection(@, selected)],
                   counters |-> updateRequestCounter(f.counters, url),
                   failed |-> failed, clears |-> 0]

\* the url whose connection handle a call returned, "none" when it threw
ResultUrl(r, chain) ==
  IF r.outcome = "ok" THEN r.connections[chain][r.sel].url ELSE "none"

\* a call must not push requestCount beyond the bound of the model
WithinBound(r, chain) ==
  r.outcome = "ok" => r.connections[chain][r.sel].requestCount <= MaxRequestCount

\* every endpoint of the chain, configured or in the pool, has its url in the
\* failed set
AllMarkedFailed(chain) ==
  /\ chain \in DOMAIN connections
  /\ \A i \in 1..Len(rpcConfigs[chain]) :
       rpcConfigs[chain][i].url \in failedRPCs
  /\ \A i \in 1..Len(connections[chain]) :
       connections[chain][i].url \in failedRPCs

\* the state changes of one getBestRPC(chain) call with result r
ApplyGetBestRPC(chain, r) ==
  /\ WithinBound(r, chain)
  /\ connections' = r.connections
  /\ requestCounters' = r.counters
  /\ failedRPCs' = r.failed
  /\ selections' =
       IF r.outcome = "ok"
       THEN [selections EXCEPT ![ResultUrl(r, chain)] = Append(@, Now)]
       ELSE selections

\* the chains a caller may name: the configured ones and one that is not
ChainArgs == ChainSet \cup {"polygon"}

\* a caller outside the manager calls getBestRPC(chain) (or one of the
\* per-chain accessors, lines 331-353)
CallGetBestRPC(chain) ==
  /\ LET r == getBestRPC(chain, connections, requestCounters, failedRPCs,
                         initialized, 1)
     IN /\ ApplyGetBestRPC(chain, r)
        /\ lastCall' = [chain |-> chain, outcome |-> r.outcome,
                        url |-> ResultUrl(r, chain), clears |-> r.clears,
                        allFailed |-> AllMarkedFailed(chain)]
  /\ UNCHANGED <<rpcConfigs, lastHealthCheck, initialized, calls, monitor,
                 probeFailures,
                 managerVars, sessionVars>>

\* -------------------------------------------------------------------- time

Older(t, d, horizon) == Max(t - d, 0 - horizon)

RECURSIVE AgeSelections(_, _)
\* the selection timestamps d ms later; those a second old or older drop out
AgeSelections(ts, d) ==
  IF ts = <<>> THEN <<>>
  ELSE (IF Now - (Head(ts) - d) < RateWindow THEN <<Head(ts) - d>> ELSE <<>>)
       \o AgeSelections(Tail(ts), d)

\* d ms pass
Tick(d) ==
  /\ requestCounters' =
       [u \in DOMAIN requestCounters |->
         [requestCounters[u] EXCEPT !.lastReset = Older(@, d, RateWindow)]]
  /\ lastHealthCheck' = Older(lastHealthCheck, d, healthCheckInterval \div 2)
  /\ selections' = [u \in Urls |-> AgeSelections(selections[u], d)]
  /\ calls' = [p \in Callers |-> [calls[p] EXCEPT !.timer = Max(@ - d, 0)]]
  /\ monitor' = [monitor EXCEPT !.timer = Max(@ - d, 0)]
  /\ session' = [session EXCEPT !.timestamp = Older(@, d, SessionLifetime + 1)]
  /\ bot' = [bot EXCEPT
       !.pendingWithdrawal =
          IF @.id = 0 THEN @
          ELSE [@ EXCEPT
                  !.createdAt = Older(@, d, ConfirmationLifetime + 1),
                  !.expiresAt = Older(@, d, 1)],
       !.buyPrompt =
          IF @.id = 0 THEN @
          ELSE [@ EXCEPT
                  !.createdAt = Older(@, d, ConfirmationLifetime + 1)]]
  /\ UNCHANGED <<rpcConfigs, connections, failedRPCs, initialized, lastCall,
                 probeFailures, managerVars, sessionOp>>

\* ------------------------------------------------------------------ errors

\* the texts the code looks for in an error message
Txt429 ==
  <<"4", "2", "9">>
TxtRateLimit ==
  <<"r", "a", "t", "e", " ", "l", "i", "m", "i", "t">>
TxtFetchFailed ==
  <<"f", "e", "t", "c", "h", " ", "f", "a", "i", "l", "e", "d">>
TxtInvalid ==
  <<"I", "n", "v", "a", "l", "i", "d">>
TxtNotFound ==
  <<"N", "o", "t", " ", "f", "o", "u", "n", "d">>
TxtWait ==
  <<"w", "a", "i", "t">>

\* messages and retry-after header values of the errors an operation throws
MsgRateLimit ==
  <<"r", "a", "t", "e", " ", "l", "i", "m", "i", "t">>
MsgRateLimitWait2 ==
  <<"r", "a", "t", "e", " ", "l", "i", "m", "i", "t", " ", "w", "a", "i",
  "t", " ", "2">>
Msg429Wait30 ==
  <<"4", "2", "9", " ", "w", "a", "i", "t", " ", "3", "0">>
MsgRateLimitWait ==
  <<"r", "a", "t", "e", " ", "l", "i", "m", "i", "t", " ", "w", "a", "i",
  "t">>
MsgFetchFailed ==
  <<"f", "e", "t", "c", "h", " ", "f", "a", "i", "l", "e", "d">>
MsgInvalidAddress ==
  <<"I", "n", "v", "a", "l", "i", "d", " ", "a", "d", "d", "r", "e", "s",
  "s">>
MsgNotFound ==
  <<"N", "o", "t", " ", "f", "o", "u", "n", "d">>
MsgInvalid429 ==
  <<"I", "n", "v", "a", "l", "i", "d", " ", "b", "l", "o", "c", "k", " ",
  "4", "2", "9">>
MsgBoom ==
  <<"b", "o", "o", "m">>
HdrSeconds30 ==
  <<"3", "0">>
HdrSeconds2 ==
  <<"2">>
HdrHttpDate ==
  <<"W", "e", "d", ",", " ", "2", "1", " ", "O", "c", "t">>
MsgNoHealthy ==
  <<"N", "o", " ", "h", "e", "a", "l", "t", "h", "y", " ", "R", "P", "C",
  "s", " ", "a", "v", "a", "i", "l", "a", "b", "l", "e", " ", "f", "o", "r",
  " ">>
MsgNotInitialized ==
  <<"R", "P", "C", " ", "M", "a", "n", "a", "g", "e", "r", " ", "n", "o",
  "t", " ", "i", "n", "i", "t", "i", "a", "l", "i", "z", "e", "d", " ", "f",
  "o", "r", " ", "c", "h", "a", "i", "n", ":", " ">>
MsgStackOverflow ==
  <<"M", "a", "x", "i", "m", "u", "m", " ", "c", "a", "l", "l", " ", "s",
  "t", "a", "c", "k", " ", "s", "i", "z", "e", " ", "e", "x", "c", "e", "e",
  "d", "e", "d">>
TxtSolana ==
  <<"s", "o", "l", "a", "n", "a">>
TxtEthereum ==
  <<"e", "t", "h", "e", "r", "e", "u", "m">>
TxtPolygon ==
  <<"p", "o", "l", "y", "g", "o", "n">>

ChainText(chain) ==
  CASE chain = "solana" -> TxtSolana
    [] chain = "ethereum" -> TxtEthereum
    [] chain = "polygon" -> TxtPolygon

\* the error a getBestRPC call throws (lines 115 and 136), and the RangeError
\* of the runtime when the nested calls exhaust the call stack
SelectionError(outcome, chain) ==
  CASE outcome = "NoHealthy" -> Err("undefined", MsgNoHealthy \o ChainText(chain), <<>>)
    [] outcome = "NotInitialized" ->
         Err("undefined", MsgNotInitialized \o ChainText(chain), <<>>)
    [] outcome = "RangeError" -> Err("undefined", MsgStackOverflow, <<>>)

\* the errors an operation throws
RateLimitErrors ==
  {Err("429", <<>>, <<>>),
   Err("undefined", MsgRateLimit, HdrSeconds30),
   Err("429", <<>>, HdrSeconds2),
   Err("429", <<>>, HdrHttpDate),
   Err("undefined", MsgRateLimitWait2, <<>>),
   Err("undefined", Msg429Wait30, <<>>),
   Err("undefined", MsgRateLimitWait, <<>>)}

NetworkErrors ==
  {Err("NETWORK_ERROR", <<>>, <<>>), Err("undefined", MsgFetchFailed, <<>>)}

ValidationErrors ==
  {Err("undefined", MsgInvalidAddress, <<>>),
   Err("undefined", MsgNotFound, <<>>),
   Err("undefined", MsgInvalid429, <<>>),
   Err("NETWORK_ERROR", MsgNotFound, <<>>)}

OtherErrors == {Err("undefined", MsgBoom, <<>>)}

OperationErrors ==
  RateLimitErrors \cup NetworkErrors \cup ValidationErrors \cup OtherErrors

\* ------------------------------------------------------------- the executor

\* line 202
isRateLimit(error) ==
  \/ error.code = "429"
  \/ includes(error.message, Txt429)
  \/ includes(error.message, TxtRateLimit)

\* line 213
isNetworkError(error) ==
  \/ includes(error.message, TxtFetchFailed)
  \/ error.code = "NETWORK_ERROR"

\* line 223
isNonRetryable(error) ==
  \/ includes(error.message, TxtInvalid)
  \/ includes(error.message, TxtNotFound)

Times(x, n) == IF x.nan THEN NaN ELSE Num(x.v * n)

\* Math.max and Math.min with a number as second argument
MathMax(x, n) == IF x.nan THEN NaN ELSE Num(Max(x.v, n))
MathMin(x, n) == IF x.nan THEN NaN ELSE Num(Min(x.v, n))

\* the wait hint handleRateLimit extracts (lines 238-247)
waitHint(error) ==
  IF error.retryAfter # <<>>
  THEN Times(parseInt(error.retryAfter), 1000)
  ELSE IF includes(error.message, TxtWait)
          /\ FirstDigits(error.message) # <<>>
       THEN Times(parseInt(FirstDigits(error.message)), 1000)
       ELSE Num(DefaultWait)

\* handleRateLimit without the lower clamp
handleRateLimitNoMin(error) == MathMin(waitHint(error), MaxWait)

\* handleRateLimit(chain, error): the waitTime it sleeps for
handleRateLimit(error) == MathMin(MathMax(waitHint(error), MinWait), MaxWait)

\* sleep(ms): setTimeout runs a delay that is NaN or below 1 as a delay of 1
sleep(ms) == IF ms.nan \/ ms.v < 1 THEN 1 ELSE ms.v

\* the catch block with an unclassified error thrown on instead of retried
handleErrorNoBackoff(error, attempt, maxRetries) ==
  IF isRateLimit(error) /\ attempt < maxRetries
  THEN [next |-> "sleep", ms |-> handleRateLimit(error)]
  ELSE IF isNetworkError(error) /\ attempt < maxRetries
  THEN [next |-> "sleep", ms |-> Num(1000 * attempt)]
  ELSE [next |-> "throw", ms |-> Num(0)]

\* the catch block with a rate-limit error thrown on instead of retried
handleErrorRethrow(error, attempt, maxRetries) ==
  IF isRateLimit(error)
  THEN [next |-> "throw", ms |-> Num(0)]
  ELSE IF isNetworkError(error) /\ attempt < maxRetries
  THEN [next |-> "sleep", ms |-> Num(1000 * attempt)]
  ELSE IF isNonRetryable(error)
  THEN [next |-> "throw", ms |-> Num(0)]
  ELSE IF attempt < maxRetries
  THEN [next |-> "sleep", ms |-> Num(500 * attempt)]
  ELSE [next |-> "throw", ms |-> Num(0)]

\* the catch block of executeWithRetry for an error caught in the given
\* attempt: sleep and go on with the next attempt, or throw
handleError(error, attempt, maxRetries) ==
  IF isRateLimit(error) /\ attempt < maxRetries
  THEN [next |-> "sleep", ms |-> handleRateLimit(error)]
  ELSE IF isNetworkError(error) /\ attempt < maxRetries
  THEN [next |-> "sleep", ms |-> Num(1000 * attempt)]
  ELSE IF isNonRetryable(error)
  THEN [next |-> "throw", ms |-> Num(0)]
  ELSE IF attempt < maxRetries
  THEN [next |-> "sleep", ms |-> Num(500 * attempt)]
  ELSE [next |-> "throw", ms |-> Num(0)]

\* the call record after its catch block handled the error
Caught(rec, error) ==
  LET h == handleError(error, rec.attempt, rec.maxRetries)
  IN IF h.next = "sleep"
     THEN [rec EXCEPT !.pc = "sleep", !.rpc = "none", !.lastError = error,
                      !.sleepMs = h.ms, !.timer = sleep(h.ms),
                      !.slept = @ + sleep(h.ms), !.failedInFlight = FALSE]
     ELSE [rec EXCEPT !.pc = "raised", !.rpc = "none", !.lastError = error,
                      !.failedInFlight = FALSE]

\* one iteration of the retry loop up to its first suspension: the endpoint
\* is selected and the operation started on it, or the selection threw and
\* the catch block ran
Attempt(p, rec) ==
  LET r == getBestRPC(rec.chain, connections, requestCounters, failedRPCs,
                      initialized, 1)
  IN /\ ApplyGetBestRPC(rec.chain, r)
     /\ calls' =
          [calls EXCEPT ![p] =
            IF r.outcome = "ok"
            THEN [rec EXCEPT !.pc = "operation",
                             !.rpc = ResultUrl(r, rec.chain),
                             !.opCalls = @ + 1]
            ELSE Caught([rec EXCEPT !.selFails = @ + 1],
                        SelectionError(r.outcome, rec.chain))]

\* a caller calls executeWithRetry(chain, operation, maxRetries); every
\* caller stands for one call
ExecuteWithRetry(p, chain, maxRetries) ==
  /\ calls[p].pc = "idle"
  /\ Attempt(p, [IdleCall EXCEPT !.chain = chain, !.maxRetries = maxRetries,
                                 !.attempt = 1])
  /\ UNCHANGED <<rpcConfigs, lastHealthCheck, initialized, monitor, lastCall,
                 probeFailures,
                 managerVars, sessionVars>>

\* resetRPCErrors that resets errorCount and leaves the healthy flag alone
resetRPCErrorsKeepFlag(conn, chain, connection) ==
  IF chain \in DOMAIN conn
  THEN [conn EXCEPT ![chain] =
         [i \in 1..Len(@) |->
           IF @[i].connection = connection
           THEN [@[i] EXCEPT !.errorCount = 0]
           ELSE @[i]]]
  ELSE conn

\* resetRPCErrors(chain, connection) on the pool
resetRPCErrors(conn, chain, connection) ==
  IF chain \in DOMAIN conn
  THEN [conn EXCEPT ![chain] =
         [i \in 1..Len(@) |->
           IF @[i].connection = connection
              /\ \A j \in 1..(i - 1) : @[j].connection # connection
           THEN [@[i] EXCEPT !.errorCount = 0, !.healthy = TRUE]
           ELSE @[i]]]
  ELSE conn

\* resetRPCErrors without line 262: no url is deleted from the failed set
resetRPCFailedNone(conn, chain, connection) == {}

\* the urls resetRPCErrors deletes from the failed set
resetRPCFailed(conn, chain, connection) ==
  IF chain \in DOMAIN conn
  THEN {conn[chain][i].url : i \in
         {k \in 1..Len(conn[chain]) :
           /\ conn[chain][k].connection = connection
           /\ \A j \in 1..(k - 1) : conn[chain][j].connection # connection}}
  ELSE {}

\* the operation of a call resolves: lines 193-196
OperationSucceeds(p) ==
  /\ calls[p].pc = "operation"
  /\ connections' = resetRPCErrors(connections, calls[p].chain, calls[p].rpc)
  /\ failedRPCs' =
       failedRPCs \ resetRPCFailed(connections, calls[p].chain, calls[p].rpc)
  /\ calls' = [calls EXCEPT ![p].pc = "returned"]
  /\ probeFailures' =
       [u \in Urls |->
         IF u \in resetRPCFailed(connections, calls[p].chain, calls[p].rpc)
         THEN 0 ELSE probeFailures[u]]
  /\ UNCHANGED <<rpcConfigs, requestCounters, lastHealthCheck, initialized,
                 monitor, lastCall, selections,
                 managerVars, sessionVars>>

\* the operation of a call throws error: the catch block, lines 198-230
OperationThrows(p, error) ==
  /\ calls[p].pc = "operation"
  /\ calls' =
       [calls EXCEPT ![p] =
         Caught([@ EXCEPT !.rlOnly = @ /\ isRateLimit(error),
                          !.hintsParse = @ /\ ~waitHint(error).nan],
                error)]
  /\ UNCHANGED <<rpcConfigs, connections, requestCounters, failedRPCs,
                 lastHealthCheck, initialized, monitor, lastCall,
                 probeFailures, selections,
                 managerVars, sessionVars>>

\* the sleep of a call is over: the next iteration of the loop
WakeUp(p) ==
  /\ calls[p].pc = "sleep"
  /\ calls[p].timer = 0
  /\ Attempt(p, [calls[p] EXCEPT !.attempt = @ + 1])
  /\ UNCHANGED <<rpcConfigs, lastHealthCheck, initialized, monitor, lastCall,
                 probeFailures,
                 managerVars, sessionVars>>

\* -------------------------------------------------------- the health monitor

RECURSIVE ProbeFrom(_)
\* the health-check loop from chain number k on, up to its next suspension:
\* the representative of the first chain that has an endpoint is probed
\* (lines 292-307); a chain without endpoints is skipped (line 295)
ProbeFrom(k) ==
  IF k > Len(Chains) THEN IdleMonitor
  ELSE LET conns == connections[Chains[k]]
           healthy == {i \in 1..Len(conns) : conns[i].healthy}
       IN IF conns = <<>> THEN ProbeFrom(k + 1)
          ELSE [pc |-> "probe", chain |-> k, timer |-> 0,
                active |-> IF healthy # {}
                           THEN CHOOSE i \in healthy : \A j \in healthy : i <= j
                           ELSE 1]

\* the debounce test with the comparison turned round
recentlyCheckedInverted(now, last) == now - last > healthCheckInterval \div 2

\* line 285: the last executed cycle started less than half an interval ago
recentlyChecked(now, last) == now - last < healthCheckInterval \div 2

\* performHealthCheck() is invoked, by the interval timer or directly.  A
\* cycle probes a chain for at most 10 s and pauses 1 s after it, so that a
\* cycle over the chains of the model is over before the debounce of
\* healthCheckInterval / 2 lets the next one start.
performHealthCheck ==
  /\ monitor.pc = "idle"
  /\ IF recentlyChecked(Now, lastHealthCheck)
     THEN UNCHANGED <<lastHealthCheck, monitor>>
     ELSE /\ lastHealthCheck' = Now
          /\ monitor' = ProbeFrom(1)
  /\ UNCHANGED <<rpcConfigs, connections, requestCounters, failedRPCs,
                 initialized, calls, lastCall, probeFailures, selections,
                 managerVars, sessionVars>>

\* the probed chain, and the endpoint that represents it (activeRPC)
ProbedChain == Chains[monitor.chain]
activeRPC == connections[ProbedChain][monitor.active]

\* the liveness call resolves before the timeout: lines 309-312
ProbeSucceeds ==
  /\ monitor.pc = "probe"
  /\ connections' =
       [connections EXCEPT ![ProbedChain][monitor.active] =
         [@ EXCEPT !.healthy = TRUE, !.errorCount = 0]]
  /\ failedRPCs' = failedRPCs \ {activeRPC.url}
  /\ monitor' = [monitor EXCEPT !.pc = "pause", !.timer = ChainPause]
  /\ probeFailures' = [probeFailures EXCEPT ![activeRPC.url] = 0]
  /\ UNCHANGED <<rpcConfigs, requestCounters, lastHealthCheck, initialized,
                 calls, lastCall, selections,
                 managerVars, sessionVars>>

\* line 318 with the threshold of the first failure
marksUnhealthyAtOnce(errorCount) == errorCount >= 1

\* line 318, for the errorCount the failed probe has just incremented
marksUnhealthy(errorCount) == errorCount >= UnhealthyThreshold

\* the endpoint after one more failed probe: lines 315-319
probeFailed(rpc) ==
  [rpc EXCEPT !.errorCount = @ + 1,
              !.healthy = IF marksUnhealthy(rpc.errorCount + 1)
                          THEN FALSE ELSE @]

\* the liveness call rejects or the timeout wins the race: lines 314-323
ProbeFails ==
  /\ monitor.pc = "probe"
  /\ activeRPC.errorCount < MaxErrorCount
  /\ connections' =
       [connections EXCEPT ![ProbedChain][monitor.active] = probeFailed(@)]
  /\ failedRPCs' =
       IF marksUnhealthy(activeRPC.errorCount + 1)
       THEN failedRPCs \cup {activeRPC.url}
       ELSE failedRPCs
  /\ monitor' = [monitor EXCEPT !.pc = "pause", !.timer = ChainPause]
  /\ probeFailures' = [probeFailures EXCEPT ![activeRPC.url] = @ + 1]
  /\ calls' =
       [p \in Callers |->
         IF /\ calls[p].pc = "operation"
            /\ calls[p].rpc = activeRPC.connection
            /\ marksUnhealthy(activeRPC.errorCount + 1)
         THEN [calls[p] EXCEPT !.failedInFlight = TRUE]
         ELSE calls[p]]
  /\ UNCHANGED <<rpcConfigs, requestCounters, lastHealthCheck, initialized,
                 lastCall, selections,
                 managerVars, sessionVars>>

\* the pause after a chain is over (line 326): the next chain
PauseEnds ==
  /\ monitor.pc = "pause"
  /\ monitor.timer = 0
  /\ monitor' = ProbeFrom(monitor.chain + 1)
  /\ UNCHANGED <<rpcConfigs, connections, requestCounters, failedRPCs,
                 lastHealthCheck, initialized, calls, lastCall, probeFailures,
                 selections,
                 managerVars, sessionVars>>

\* ------------------------------------------------------------- the reports

\* getStatus().chains[chain] (lines 366-372): healthy counts the endpoints
\* with the healthy flag whose url is not in the failed set
getStatus(chain) ==
  LET conns == connections[chain]
      healthy == {i \in 1..Len(conns) :
                   conns[i].healthy /\ conns[i].url \notin failedRPCs}
  IN [total |-> Len(conns),
      healthy |-> Cardinality(healthy),
      failed |-> Len(conns) - Cardinality(healthy)]

\* getChainStats(chain) (lines 413-429): healthyEndpoints counts the
\* endpoints with the healthy flag; null for a chain without a pool
getChainStats(chain) ==
  IF chain \notin DOMAIN connections
  THEN [chain |-> "null", totalEndpoints |-> 0, healthyEndpoints |-> 0]
  ELSE LET conns == connections[chain]
           healthy == {i \in 1..Len(conns) : conns[i].healthy}
       IN [chain |-> chain,
           totalEndpoints |-> Len(conns),
           healthyEndpoints |-> Cardinality(healthy)]

\* ------------------------------------------------------- pool administration

\* the descriptor addRPC pushes (lines 394-398)
NewConfig(url, priority) ==
  [url |-> url, priority |-> priority, maxRequestsPerSecond |-> DefaultCapacity]

\* this.rpcConfigs after addRPC(chain, url, priority)
addRPCConfigs(cfg, chain, url, priority) ==
  [c \in DOMAIN cfg \cup {chain} |->
    IF c = chain
    THEN Append(IF chain \in DOMAIN cfg THEN cfg[chain] ELSE <<>>,
                NewConfig(url, priority))
    ELSE cfg[c]]

\* addRPC that also opens the connection and pushes the endpoint
addRPCOpensConnection(conn, chain, url, priority) ==
  IF chain \in DOMAIN conn
  THEN [conn EXCEPT ![chain] = Append(@, NewEndpoint(NewConfig(url, priority)))]
  ELSE conn

\* this.connections after addRPC(chain, url, priority): the function has no
\* statement on it
addRPCConnections(conn, chain, url, priority) == conn

\* addRPC(chain, url, priority)
addRPC(chain, url, priority) ==
  /\ chain \in DOMAIN rpcConfigs => Len(rpcConfigs[chain]) < MaxConfigs
  /\ rpcConfigs' = addRPCConfigs(rpcConfigs, chain, url, priority)
  /\ connections' = addRPCConnections(connections, chain, url, priority)
  /\ UNCHANGED <<requestCounters, failedRPCs, lastHealthCheck, initialized,
                 calls, monitor, lastCall, probeFailures, selections,
                 managerVars, sessionVars>>

RECURSIVE WithoutUrl(_, _)
\* configs.filter(rpc => rpc.url !== url)
WithoutUrl(configs, url) ==
  IF configs = <<>> THEN <<>>
  ELSE (IF Head(configs).url # url THEN <<Head(configs)>> ELSE <<>>)
       \o WithoutUrl(Tail(configs), url)

\* removeRPC(chain, url): nothing happens for a chain without configuration
removeRPC(chain, url) ==
  /\ rpcConfigs' =
       IF chain \in DOMAIN rpcConfigs
       THEN [rpcConfigs EXCEPT ![chain] = WithoutUrl(@, url)]
       ELSE rpcConfigs
  /\ failedRPCs' =
       IF chain \in DOMAIN rpcConfigs THEN failedRPCs \ {url} ELSE failedRPCs
  /\ UNCHANGED <<connections, requestCounters, lastHealthCheck, initialized,
                 calls, monitor, lastCall, probeFailures, selections,
                 managerVars, sessionVars>>

\* ------------------------------------------------------- the ServiceManager

\* this.services.has(name)
has(sm, name) == \E i \in 1..Len(sm.services) : sm.services[i] = name

\* registerService(name, serviceClass, dependencies) for a name that is not
\* registered yet (lines 25-33)
registerService(sm, name, dependencies) ==
  [sm EXCEPT !.services = Append(@, name),
             !.dependencies =
               [n \in DOMAIN @ \cup {name} |->
                 IF n = name THEN dependencies ELSE @[n]]]

RECURSIVE visit(_, _, _), visitDependencies(_, _, _)
\* visit(name) of getInitializationOrder (lines 136-158) on the sets visited
\* and visiting and the list order; thrown once an Error was thrown
visit(sm, name, st) ==
  IF st.thrown THEN st
  ELSE IF name \in st.visiting THEN [st EXCEPT !.thrown = TRUE]
  ELSE IF name \in st.visited THEN st
  ELSE LET deps == IF name \in DOMAIN sm.dependencies
                   THEN sm.dependencies[name] ELSE <<>>
           after == visitDependencies(
                      sm, deps, [st EXCEPT !.visiting = @ \cup {name}])
       IN IF after.thrown THEN after
          ELSE [after EXCEPT !.visiting = @ \ {name},
                             !.visited = @ \cup {name},
                             !.order = Append(@, name)]

\* the loop over the dependencies of a service (lines 148-153)
visitDependencies(sm, deps, st) ==
  IF deps = <<>> \/ st.thrown THEN st
  ELSE IF ~has(sm, Head(deps)) THEN [st EXCEPT !.thrown = TRUE]
  ELSE visitDependencies(sm, Tail(deps), visit(sm, Head(deps), st))

RECURSIVE visitAll(_, _, _)
\* the loop over this.services.keys() (lines 160-162)
visitAll(sm, names, st) ==
  IF names = <<>> THEN st
  ELSE visitAll(sm, Tail(names), visit(sm, Head(names), st))

\* the order of registration taken for the order of initialization
getInitializationOrderAsRegistered(sm) ==
  [thrown |-> FALSE, order |-> sm.services]

\* getInitializationOrder(): the list it returns, or thrown
getInitializationOrder(sm) ==
  LET st == visitAll(sm, sm.services,
                     [visited |-> {}, visiting |-> {}, order |-> <<>>,
                      thrown |-> FALSE])
  IN [thrown |-> st.thrown, order |-> st.order]

RECURSIVE Reverse(_)
\* Array.prototype.reverse
Reverse(list) ==
  IF list = <<>> THEN <<>> ELSE Append(Reverse(Tail(list)), Head(list))

\* the service classes that define shutdown() (line 201); every class defines
\* initialize() (line 86)
HasShutdown == {"a", "b"}

\* the activation of initializeService(name) a caller is suspended in: the
\* dependencies it read at line 58 and the one its loop awaits next
Frame(sm, name) ==
  [name |-> name, dependencies |-> sm.dependencies[name], next |-> 1]

\* the outcome of the part of a call that runs without suspension
Outcome(sm, ev, stack, status, error) ==
  [sm |-> sm, ev |-> ev, stack |-> stack, status |-> status, error |-> error]

\* new ServiceClass(...) and the call of instance.initialize() (lines 77-87);
\* early records a service constructed before a dependency had completed
construct(ev, frame) ==
  [ev EXCEPT !.early =
     IF \E i \in 1..Len(frame.dependencies) :
          ev.completed[frame.dependencies[i]] = 0
     THEN @ \cup {frame.name} ELSE @]

RECURSIVE getServiceFrom(_, _, _, _), initializeServiceFrom(_, _, _, _),
          dependenciesFrom(_, _, _)
\* getService(name) up to its first suspension (lines 38-54)
getServiceFrom(sm, ev, stack, name) ==
  IF ~has(sm, name) THEN Outcome(sm, ev, stack, "throw", "notRegistered")
  ELSE IF name \in sm.instances
       THEN Outcome(sm, ev, stack, "value", "none")
  ELSE IF name \in sm.initializing
       THEN Outcome(sm, ev, stack, "throw", "circular")
  ELSE initializeServiceFrom(sm, ev, stack, name)

\* initializeService(name) up to its first suspension (lines 57-72); line 59
\* reads the instance of a serviceInfo that a shutdown may have removed
initializeServiceFrom(sm, ev, stack, name) ==
  IF name \in sm.initialized
  THEN IF has(sm, name) THEN Outcome(sm, ev, stack, "value", "none")
       ELSE Outcome(sm, ev, stack, "throw", "typeError")
  ELSE IF name \in sm.initializing
       THEN Outcome(sm, ev, stack, "throw", "circular")
  ELSE IF ~has(sm, name)
       THEN Outcome(sm, ev, stack, "throw", "notRegistered")
  ELSE dependenciesFrom(
         [sm EXCEPT !.initializing = @ \cup {name}], ev,
         Append(stack, Frame(sm, name)))

\* the loop over the dependencies of the innermost activation (lines 72-75)
\* and what follows it (lines 77-87), up to the next suspension
dependenciesFrom(sm, ev, stack) ==
  LET frame == stack[Len(stack)]
  IN IF frame.next > Len(frame.dependencies)
     THEN Outcome(sm, construct(ev, frame), stack, "init", "none")
     ELSE LET r == getServiceFrom(
                     sm, ev,
                     [stack EXCEPT ![Len(stack)].next = @ + 1],
                     frame.dependencies[frame.next])
          IN IF r.status = "value"
             THEN Outcome(r.sm, r.ev, r.stack, "resume", "none")
             ELSE r

\* the names of the activations of a stack
FrameNames(stack) == {stack[i].name : i \in 1..Len(stack)}

\* the catch blocks of the activations an Error passes through (lines 101-108)
unwind(sm, stack) == [sm EXCEPT !.initializing = @ \ FrameNames(stack)]

\* a caller takes the outcome of the part that ran: it is suspended, has its
\* value or has the Error
Settle(t, kind, order, idx, r) ==
  /\ serviceManager' =
       IF r.status = "throw" THEN unwind(r.sm, r.stack) ELSE r.sm
  /\ events' = r.ev
  /\ tasks' = [tasks EXCEPT ![t] =
       IF r.status = "throw"
       THEN [pc |-> "raised", kind |-> kind, stack |-> <<>>, order |-> order,
             idx |-> idx, error |-> r.error]
       ELSE IF r.status = "value"
       THEN [pc |-> IF kind = "initializeAll" THEN "next" ELSE "done",
             kind |-> kind, stack |-> <<>>, order |-> order, idx |-> idx,
             error |-> "none"]
       ELSE [pc |-> r.status, kind |-> kind, stack |-> r.stack,
             order |-> order, idx |-> idx, error |-> "none"]]

\* a caller calls getService(name)
CallGetService(t, name) ==
  /\ tasks[t].pc = "idle"
  /\ Settle(t, "getService", <<>>, 0,
            getServiceFrom(serviceManager, events, <<>>, name))
  /\ UNCHANGED <<rpcVars, sessionVars>>

\* the loop of initializeAll() from the service at idx on (lines 117-119)
InitializeFrom(t, order, idx) ==
  IF idx > Len(order)
  THEN /\ tasks' = [tasks EXCEPT ![t] =
            [pc |-> "done", kind |-> "initializeAll", stack |-> <<>>,
             order |-> order, idx |-> idx, error |-> "none"]]
       /\ UNCHANGED <<serviceManager, events>>
  ELSE Settle(t, "initializeAll", order, idx,
              initializeServiceFrom(serviceManager, events, <<>>, order[idx]))

\* a caller calls initializeAll() (lines 112-128)
CallInitializeAll(t) ==
  /\ tasks[t].pc = "idle"
  /\ LET r == getInitializationOrder(serviceManager)
     IN IF r.thrown
        THEN /\ tasks' = [tasks EXCEPT ![t] =
                  [pc |-> "raised", kind |-> "initializeAll", stack |-> <<>>,
                   order |-> <<>>, idx |-> 0, error |-> "order"]]
             /\ UNCHANGED <<serviceManager, events>>
        ELSE InitializeFrom(t, r.order, 1)
  /\ UNCHANGED <<rpcVars, sessionVars>>

\* the await of initializeAll() returns: the next service of the order
NextInOrder(t) ==
  /\ tasks[t].pc = "next"
  /\ InitializeFrom(t, tasks[t].order, tasks[t].idx + 1)
  /\ UNCHANGED <<rpcVars, sessionVars>>

\* the awaited getService(dep) has returned: the loop goes on (line 73)
Resume(t) ==
  /\ tasks[t].pc = "resume"
  /\ Settle(t, tasks[t].kind, tasks[t].order, tasks[t].idx,
            dependenciesFrom(serviceManager, events, tasks[t].stack))
  /\ UNCHANGED <<rpcVars, sessionVars>>

\* instance.initialize() resolves (lines 90-99): the service is initialized
\* and the activation returns to the one that awaits it
InitializeResolves(t) ==
  /\ tasks[t].pc = "init"
  /\ LET stack == tasks[t].stack
         name == stack[Len(stack)].name
         rest == SubSeq(stack, 1, Len(stack) - 1)
     IN /\ serviceManager' =
             [serviceManager EXCEPT
                !.instances = IF has(serviceManager, name)
                              THEN @ \cup {name} ELSE @,
                !.initialized = @ \cup {name},
                !.initializing = @ \ {name}]
        /\ events' = [events EXCEPT !.completed[name] = @ + 1]
        /\ tasks' = [tasks EXCEPT ![t] =
             [@ EXCEPT !.stack = rest,
                       !.pc = IF rest # <<>> THEN "resume"
                              ELSE IF tasks[t].kind = "initializeAll"
                              THEN "next"
                              ELSE "done"]]
  /\ UNCHANGED <<rpcVars, sessionVars>>

\* instance.initialize() rejects: every activation of the caller rethrows
InitializeRejects(t) ==
  /\ tasks[t].pc = "init"
  /\ serviceManager' = unwind(serviceManager, tasks[t].stack)
  /\ tasks' = [tasks EXCEPT ![t] =
       [@ EXCEPT !.pc = "raised", !.stack = <<>>, !.error = "initialize"]]
  /\ UNCHANGED <<events, rpcVars, sessionVars>>

\* the loop of shutdown() from the service at idx on (lines 194-206), then
\* the clearing of the registry (lines 208-211)
ShutdownFrom(t, order, idx, errors) ==
  LET due == {i \in idx..Len(order) :
                  /\ order[i] \in serviceManager.instances
                  /\ order[i] \in HasShutdown}
  IN IF due = {}
     THEN /\ serviceManager' = NewServiceManager
          /\ events' = [events EXCEPT !.shutdownErrors = errors]
          /\ tasks' = [tasks EXCEPT ![t] =
               [pc |-> "done", kind |-> "shutdown", stack |-> <<>>,
                order |-> order, idx |-> Len(order) + 1, error |-> "none"]]
     ELSE LET i == CHOOSE j \in due : \A k \in due : j <= k
          IN /\ events' = [events EXCEPT
                  !.shutdowns = Append(@, order[i]),
                  !.shutdownErrors = errors]
             /\ tasks' = [tasks EXCEPT ![t] =
                  [pc |-> "shutdown", kind |-> "shutdown", stack |-> <<>>,
                   order |-> order, idx |-> i, error |-> "none"]]
             /\ UNCHANGED serviceManager

\* a caller calls shutdown() (lines 188-214)
CallShutdown(t) ==
  /\ tasks[t].pc = "idle"
  /\ LET r == getInitializationOrder(serviceManager)
     IN IF r.thrown
        THEN /\ tasks' = [tasks EXCEPT ![t] =
                  [pc |-> "raised", kind |-> "shutdown", stack |-> <<>>,
                   order |-> <<>>, idx |-> 0, error |-> "order"]]
             /\ UNCHANGED <<serviceManager, events>>
        ELSE ShutdownFrom(t, Reverse(r.order), 1, events.shutdownErrors)
  /\ UNCHANGED <<rpcVars, sessionVars>>

\* instance.shutdown() resolves: the next service
ShutdownResolves(t) ==
  /\ tasks[t].pc = "shutdown"
  /\ ShutdownFrom(t, tasks[t].order, tasks[t].idx + 1, events.shutdownErrors)
  /\ UNCHANGED <<rpcVars, sessionVars>>

\* instance.shutdown() rejects: the Error is logged, then the next service
\* (lines 203-205)
ShutdownRejects(t) ==
  /\ tasks[t].pc = "shutdown"
  /\ ShutdownFrom(t, tasks[t].order, tasks[t].idx + 1,
                  events.shutdownErrors
                    \cup {tasks[t].order[tasks[t].idx]})
  /\ UNCHANGED <<rpcVars, sessionVars>>

\* the caller has the result of its call and goes on
Returns(t) ==
  /\ tasks[t].pc \in {"done", "raised"}
  /\ tasks' = [tasks EXCEPT ![t] = [@ EXCEPT !.pc = "idle"]]
  /\ UNCHANGED <<serviceManager, events, rpcVars, sessionVars>>

\* ------------------------------------------------- the session of the bot

\* a string as a value of the code, and the value null
Str(s) == [type |-> "string", value |-> s]
Null == [type |-> "null", value |-> ""]

\* the value is truthy: null and the empty string are not
truthy(v) == v.type = "string" /\ v.value # ""

\* the session that the middleware and clearSession create (lines 49-53,
\* 198-202)
NewSession == [state |-> "idle", data |-> <<>>, timestamp |-> Now]

\* { ...b, ...a }: the keys of the first object win
spreadFirstWins(a, b) ==
  [k \in DOMAIN a \cup DOMAIN b |-> IF k \in DOMAIN a THEN a[k] ELSE b[k]]

\* { ...a, ...b }
spread(a, b) ==
  [k \in DOMAIN a \cup DOMAIN b |-> IF k \in DOMAIN b THEN b[k] ELSE a[k]]

\* getState(ctx) (lines 186-188)
getState(s) == IF truthy(Str(s.state)) THEN s.state ELSE "idle"

\* getData(ctx, key) (lines 190-195): the value of the key, undefined, or
\* the whole data
getData(s, key) ==
  IF truthy(key)
  THEN IF key.value \in DOMAIN s.data
       THEN [whole |-> FALSE, value |-> Str(s.data[key.value])]
       ELSE [whole |-> FALSE, value |-> [type |-> "undefined", value |-> ""]]
  ELSE [whole |-> TRUE, value |-> s.data]

\* the session is older than its lifetime (line 57)
expired(now, timestamp) == now - timestamp > SessionLifetime

\* setState(ctx, state, data) (lines 180-184)
setState(state, data) ==
  /\ session' = [state |-> state, data |-> spread(session.data, data),
                 timestamp |-> Now]
  /\ sessionOp' = [op |-> "setState", state |-> state, data |-> data]
  /\ UNCHANGED <<rpcVars, managerVars, bot>>

\* clearSession(ctx) (lines 197-203)
clearSession ==
  /\ session' = NewSession
  /\ sessionOp' = [op |-> "clearSession", state |-> "idle", data |-> <<>>]
  /\ UNCHANGED <<rpcVars, managerVars, bot>>

\* an update of the chat passes the state validation middleware (lines
\* 56-59); if it is a command, the wrapper of registerCommand runs before the
\* handler (lines 138-143), clearState being the option of the command
Update(command, clearState) ==
  LET old == expired(Now, session.timestamp)
      new == command /\ clearState
  IN /\ session' = IF old \/ new THEN NewSession ELSE session
     /\ sessionOp' =
          IF new THEN [op |-> "command", state |-> "idle", data |-> <<>>]
          ELSE IF old THEN [op |-> "expired", state |-> "idle", data |-> <<>>]
          ELSE sessionOp
     /\ UNCHANGED <<rpcVars, managerVars, bot>>

\* ------------------------------------------------------- the confirmations

\* the replies that the handlers of the confirmations hear
Replies == {"YES", "yEs", "NO"}

\* String.prototype.toLowerCase on the texts of the chat
toLowerCase(text) ==
  CASE text \in {"YES", "yEs"} -> "yes"
    [] text = "NO" -> "no"
    [] OTHER -> text

\* /^(YES|yes|Yes)$/i.test(ctx.message.text) (line 220)
confirms(text) == toLowerCase(text) = "yes"

\* Date.now() + 60000 (line 204)
expiresAt(now) == now + ConfirmationLifetime

\* a confirmation that is answered whenever the reply comes
confirmationNeverExpires(now, expires) == FALSE

\* Date.now() > withdrawalData.expiresAt (line 228)
confirmationExpired(now, expires) == now > expires

\* the time since a confirmation was created, up to where it no longer matters
AgeOf(confirmation) == Now - confirmation.createdAt

\* /withdraw: the handler awaits the services (lines 9-118)
WithdrawCommand(h) ==
  /\ bot.handlers[h].pc = "idle"
  /\ bot' = [bot EXCEPT !.handlers[h].pc = "command"]
  /\ UNCHANGED <<rpcVars, managerVars, session, sessionOp>>

\* /withdraw replies with the usage or with an error and creates no
\* confirmation (lines 17-136, 149-152)
WithdrawRejected(h) ==
  /\ bot.handlers[h].pc = "command"
  /\ bot' = [bot EXCEPT !.handlers[h] = IdleHandler]
  /\ UNCHANGED <<rpcVars, managerVars, session, sessionOp>>

\* createWithdrawalConfirmation (lines 156-210)
createWithdrawalConfirmation(h) ==
  /\ bot.handlers[h].pc = "command"
  /\ bot.created < MaxConfirmations
  /\ bot' = [bot EXCEPT
       !.pendingWithdrawal =
         [id |-> bot.created + 1, createdAt |-> Now,
          expiresAt |-> expiresAt(Now)],
       !.awaitingWithdrawalConfirmation = TRUE,
       !.created = @ + 1,
       !.handlers[h] = IdleHandler]
  /\ UNCHANGED <<rpcVars, managerVars, session, sessionOp>>

\* withdraw.hears YES/NO up to its first await (lines 213-236)
WithdrawReply(h, text) ==
  /\ bot.handlers[h].pc = "idle"
  /\ LET withdrawalData == bot.pendingWithdrawal
     IN IF ~bot.awaitingWithdrawalConfirmation \/ withdrawalData.id = 0
        THEN UNCHANGED bot
        ELSE bot' = [bot EXCEPT
               !.awaitingWithdrawalConfirmation = FALSE,
               !.pendingWithdrawal = NoConfirmation,
               !.handlers[h] =
                 IF \/ confirmationExpired(Now, withdrawalData.expiresAt)
                    \/ ~confirms(text)
                 THEN IdleHandler
                 ELSE [pc |-> "processing", id |-> withdrawalData.id,
                       age |-> AgeOf(withdrawalData), text |-> text]]
  /\ UNCHANGED <<rpcVars, managerVars, session, sessionOp>>

\* walletService.sendNativeTokens is called and the handler ends (lines
\* 238-256)
sendNativeTokens(h) ==
  /\ bot.handlers[h].pc = "processing"
  /\ bot' = [bot EXCEPT
       !.sent = Append(@, [id |-> bot.handlers[h].id,
                           age |-> bot.handlers[h].age,
                           text |-> bot.handlers[h].text]),
       !.handlers[h] = IdleHandler]
  /\ UNCHANGED <<rpcVars, managerVars, session, sessionOp>>

\* the texts that the text handler of the buy confirmation hears (/.+/)
BuyReplies == {"YES", "NO", "later"}

\* the state validation middleware (lines 47-59) on the session
validated(s) == IF expired(Now, s.timestamp) THEN NewSession ELSE s

\* /buy: the middleware, the wrapper of registerCommand, which clears the
\* session (clearState is not given), then the handler awaits the services
\* (BuyCommand.js lines 16-94)
BuyCommand(h) ==
  /\ bot.handlers[h].pc = "idle"
  /\ session' = NewSession
  /\ bot' = [bot EXCEPT !.handlers[h].pc = "analyzing"]
  /\ UNCHANGED <<rpcVars, managerVars, sessionOp>>

\* /buy replies with the usage or with an error and shows no prompt
BuyRejected(h) ==
  /\ bot.handlers[h].pc = "analyzing"
  /\ bot' = [bot EXCEPT !.handlers[h] = IdleHandler]
  /\ UNCHANGED <<rpcVars, managerVars, session, sessionOp>>

\* processBuyCommand stores the trade and shows the prompt (lines 97-111)
BuyPrompt(h) ==
  /\ bot.handlers[h].pc = "analyzing"
  /\ bot.created < MaxConfirmations
  /\ session' =
       [state |-> "awaiting_buy_confirmation",
        data |-> spread(session.data,
                        [k \in {"tradeDetails"} |-> bot.created + 1]),
        timestamp |-> Now]
  /\ bot' = [bot EXCEPT
       !.buyPrompt = [id |-> bot.created + 1, createdAt |-> Now,
                      expiresAt |-> expiresAt(Now)],
       !.created = @ + 1,
       !.handlers[h] = IdleHandler]
  /\ UNCHANGED <<rpcVars, managerVars, sessionOp>>

\* a text of the chat: the middleware, the text handler of the state
\* awaiting_buy_confirmation (part_006 lines 151-164) and
\* handleBuyConfirmation up to its first await (lines 311-327)
BuyReply(h, text) ==
  /\ bot.handlers[h].pc = "idle"
  /\ LET s == validated(session)
         tradeData == getData(s, Null).value
     IN IF getState(s) # "awaiting_buy_confirmation"
        THEN session' = s /\ UNCHANGED bot
        ELSE IF toLowerCase(text) \in {"yes", "y"}
        THEN /\ session' = s
             /\ bot' = [bot EXCEPT !.handlers[h] =
                  [pc |-> "executing", id |-> tradeData["tradeDetails"],
                   age |-> AgeOf(bot.buyPrompt), text |-> text]]
        ELSE IF toLowerCase(text) \in {"no", "n"}
        THEN session' = NewSession /\ UNCHANGED bot
        ELSE session' = s /\ UNCHANGED bot
  /\ UNCHANGED <<rpcVars, managerVars, sessionOp>>

\* realTradingExecutor.executeBuy is called (lines 330-336)
executeBuy(h) ==
  /\ bot.handlers[h].pc = "executing"
  /\ Len(bot.executed) < MaxExecutions
  /\ bot' = [bot EXCEPT
       !.executed = Append(@, [id |-> bot.handlers[h].id,
                               age |-> bot.handlers[h].age,
                               text |-> bot.handlers[h].text]),
       !.handlers[h].pc = "executed"]
  /\ UNCHANGED <<rpcVars, managerVars, session, sessionOp>>

\* executeBuy has settled, or the reply before it failed: the session is
\* cleared (lines 338, 367-371)
BuySettles(h) ==
  /\ bot.handlers[h].pc \in {"executing", "executed"}
  /\ session' = NewSession
  /\ bot' = [bot EXCEPT !.handlers[h] = IdleHandler]
  /\ UNCHANGED <<rpcVars, managerVars, sessionOp>>

\* ----------------------------------------------------------- specifications

\* the steps of the clock in a specification about the rate window
FineSteps == {500}

InitAllCreated ==
  \E pa \in Priorities, pb \in Priorities : InitWith(Configs(pa, pb), Urls)

\* the steps of the clock where the rate window is not the subject
CoarseSteps == {60000}

InitRetry == InitWith(Configs(1, 2), Urls)

\* the chains named in a specification about one executeWithRetry call
RetryChains == {"solana", "polygon"}

NextRetry ==
  \/ \E chain \in RetryChains, maxRetries \in 1..MaxMaxRetries :
       ExecuteWithRetry("p1", chain, maxRetries)
  \/ OperationSucceeds("p1")
  \/ \E error \in OperationErrors : OperationThrows("p1", error)
  \/ WakeUp("p1")
  \/ \E chain \in RetryChains : CallGetBestRPC(chain)
  \/ \E d \in CoarseSteps : Tick(d)

SpecRetry == InitRetry /\ [][NextRetry]_vars

\* the errors of a specification about the pool rather than the executor
PoolErrors == {Err("429", <<>>, <<>>)}

Init == InitWith(SourceConfigs, Urls)

\* caller p1 calls with the default maxRetries, caller p2 is another caller
\* of the ethereum pool, one that does not retry
Next ==
  \/ \E chain \in ChainSet : ExecuteWithRetry("p1", chain, DefaultMaxRetries)
  \/ ExecuteWithRetry("p2", "ethereum", 1)
  \/ \E p \in Callers : OperationSucceeds(p)
  \/ \E p \in Callers, error \in PoolErrors : OperationThrows(p, error)
  \/ \E p \in Callers : WakeUp(p)
  \/ performHealthCheck
  \/ ProbeSucceeds
  \/ ProbeFails
  \/ PauseEnds
  \/ \E d \in CoarseSteps : Tick(d)

Spec == Init /\ [][Next]_vars

\* the pool of a two-endpoint chain under selection and health checks; the
\* handle of the solana endpoint could not be created
InitPool ==
  \E pb \in Priorities : InitWith(Configs(2, pb), {"urlA", "urlB"})

NextPool ==
  \/ \E chain \in ChainSet : CallGetBestRPC(chain)
  \/ performHealthCheck
  \/ ProbeSucceeds
  \/ ProbeFails
  \/ PauseEnds
  \/ \E d \in CoarseSteps : Tick(d)

SpecPool == InitPool /\ [][NextPool]_vars

NextRate ==
  \/ \E chain \in ChainArgs : CallGetBestRPC(chain)
  \/ \E d \in FineSteps : Tick(d)

SpecRate == InitAllCreated /\ [][NextRate]_vars

\* the pool under addRPC and removeRPC: the urls and priorities an operator
\* passes, and the chains they are passed for
AddedUrls == {"urlN"}
AddedPriorities == {0, 10}
RemovedUrls == {"urlA", "urlN"}
AdminChains == {"ethereum", "polygon"}

InitAdmin == InitWith(Configs(1, 2), Urls)

NextAdmin ==
  \/ \E chain \in AdminChains, url \in AddedUrls, priority \in AddedPriorities :
       addRPC(chain, url, priority)
  \/ \E chain \in AdminChains, url \in RemovedUrls : removeRPC(chain, url)
  \/ CallGetBestRPC("ethereum")
  \/ \E d \in CoarseSteps : Tick(d)

SpecAdmin == InitAdmin /\ [][NextAdmin]_vars

\* the health monitor alone, with a clock fine enough for an invocation to
\* fall into the debounce window of the cycle before
MonitorSteps == {1000, 20000}

NextMonitor ==
  \/ performHealthCheck
  \/ ProbeSucceeds
  \/ ProbeFails
  \/ PauseEnds
  \/ \E d \in MonitorSteps : Tick(d)

SpecMonitor == Init /\ [][NextMonitor]_vars

\* the dependency lists a service is registered with
DependencyLists(name) ==
  {<<>>} \cup {<<d>> : d \in Names \ {name}}
         \cup {l \in (Names \ {name}) \X (Names \ {name}) : l[1] # l[2]}

\* the registry after registerService for "a", "b" and "c" in this order
Registered(da, db, dc) ==
  registerService(
    registerService(registerService(NewServiceManager, "a", da), "b", db),
    "c", dc)

InitServices ==
  /\ InitRPCManager(Configs(1, 2), Urls)
  /\ \E da \in DependencyLists("a"), db \in DependencyLists("b"),
        dc \in DependencyLists("c") :
       serviceManager = Registered(da, db, dc)
  /\ tasks = [t \in Tasks |-> IdleTask]
  /\ events = NoEvents
  /\ InitSession

NextServices ==
  \E t \in Tasks :
    \/ \E name \in Names : CallGetService(t, name)
    \/ CallInitializeAll(t)
    \/ NextInOrder(t)
    \/ Resume(t)
    \/ InitializeResolves(t)
    \/ InitializeRejects(t)
    \/ CallShutdown(t)
    \/ ShutdownResolves(t)
    \/ ShutdownRejects(t)
    \/ Returns(t)

SpecServices == InitServices /\ [][NextServices]_vars

\* the state names, keys and values of the session: the states of the guide
\* and the empty string
SessionStates == {"", "idle", "awaiting_wallet_name"}
SessionKeys == {"", "name"}
SessionValues == {"v1", "v2"}

\* the data objects over these keys and values
SessionData ==
  UNION {[keys -> SessionValues] : keys \in SUBSET SessionKeys}

\* half the lifetime of a session, and one millisecond more
SessionSteps == {SessionLifetime \div 2, SessionLifetime \div 2 + 1}

\* the middleware has created the session of the chat (lines 48-54)
InitBot ==
  /\ InitRPCManager(Configs(1, 2), Urls)
  /\ serviceManager = NewServiceManager
  /\ tasks = [t \in Tasks |-> IdleTask]
  /\ events = NoEvents
  /\ session = NewSession
  /\ sessionOp = NoSessionOp
  /\ bot = NewBot

NextSession ==
  \/ \E state \in SessionStates, data \in SessionData : setState(state, data)
  \/ clearSession
  \/ \E command \in BOOLEAN, clearState \in BOOLEAN :
       Update(command, clearState)
  \/ \E d \in SessionSteps : Tick(d)

SpecSession == InitBot /\ [][NextSession]_vars

\* half the lifetime of a confirmation, and one millisecond more
ConfirmationSteps == {ConfirmationLifetime \div 2, ConfirmationLifetime \div 2 + 1}

NextWithdraw ==
  \/ \E h \in Handlers :
       \/ WithdrawCommand(h)
       \/ WithdrawRejected(h)
       \/ createWithdrawalConfirmation(h)
       \/ \E text \in Replies : WithdrawReply(h, text)
       \/ sendNativeTokens(h)
  \/ \E d \in ConfirmationSteps : Tick(d)

\* the chat has not been seen for long and has no confirmation
InitWithdraw == InitWith(Configs(1, 2), Urls)

SpecWithdraw == InitWithdraw /\ [][NextWithdraw]_vars

\* more than the lifetime of a confirmation, and the lifetime of a session
BuySteps == {ConfirmationLifetime + 1, SessionLifetime}

NextBuy ==
  \/ \E h \in Handlers :
       \/ BuyCommand(h)
       \/ BuyRejected(h)
       \/ BuyPrompt(h)
       \/ \E text \in BuyReplies : BuyReply(h, text)
       \/ executeBuy(h)
       \/ BuySettles(h)
  \/ \E d \in BuySteps : Tick(d)

SpecBuy == InitBot /\ [][NextBuy]_vars

\* the capacities of the endpoints of a configuration: that of the source
\* and the least one
Capacities == {1, DefaultCapacity}

\* this.rpcConfigs with two ethereum endpoints of the given capacities
ConfigsOfCapacity(ca, cb) ==
  [solana |-> << [url |-> "urlS", priority |-> 1,
                  maxRequestsPerSecond |-> DefaultCapacity] >>,
   ethereum |-> << [url |-> "urlA", priority |-> 1,
                    maxRequestsPerSecond |-> ca],
                   [url |-> "urlB", priority |-> 2,
                    maxRequestsPerSecond |-> cb] >>]

InitCapacity ==
  \E ca \in Capacities, cb \in Capacities :
    InitWith(ConfigsOfCapacity(ca, cb), Urls)

NextCapacity ==
  \/ CallGetBestRPC("ethereum")
  \/ \E d \in FineSteps : Tick(d)

SpecCapacity == InitCapacity /\ [][NextCapacity]_vars

\* the errors of an operation that executeWithRetry retries: a network error
\* and one that no test of the catch block matches
RetryableErrors == {Err("undefined", MsgFetchFailed, <<>>)} \cup OtherErrors

\* the steps of the clock: the rate window, which is the shortest backoff too
FailoverSteps == {RateWindow}

\* the operation on the endpoint of the least priority number fails
PrimaryFails(p, error) ==
  /\ calls[p].rpc = "urlA"
  /\ OperationThrows(p, error)

\* the operation on any other endpoint succeeds
SecondarySucceeds(p) ==
  /\ calls[p].rpc # "urlA"
  /\ OperationSucceeds(p)

\* one call of executeWithRetry(chain, operation, 3) on a chain whose first
\* endpoint fails every operation and whose second one works, next to other
\* callers of getBestRPC
NextFailover ==
  \/ ExecuteWithRetry("p1", "ethereum", DefaultMaxRetries)
  \/ \E error \in RetryableErrors : PrimaryFails("p1", error)
  \/ SecondarySucceeds("p1")
  \/ WakeUp("p1")
  \/ CallGetBestRPC("ethereum")
  \/ \E d \in FailoverSteps : Tick(d)

SpecFailover == InitRetry /\ [][NextFailover]_vars

\* the health monitor of a two-endpoint chain that keeps running: the timer
\* fires, time passes, a probe settles and a pause ends (weak fairness), and
\* the liveness call of an endpoint that is probed again and again resolves
\* (strong fairness on its success)
InitRecovery == InitWith(Configs(1, 2), Urls)

NextRecovery ==
  \/ performHealthCheck
  \/ ProbeSucceeds
  \/ ProbeFails
  \/ PauseEnds
  \/ \E d \in CoarseSteps : Tick(d)

ProbeSucceedsOn(url) == ProbeSucceeds /\ activeRPC.url = url

MonitorKeepsRunning ==
  /\ WF_vars(performHealthCheck)
  /\ WF_vars(ProbeSucceeds \/ ProbeFails)
  /\ WF_vars(PauseEnds)
  /\ WF_vars(\E d \in CoarseSteps : Tick(d))
  /\ \A url \in Urls : SF_vars(ProbeSucceedsOn(url))

SpecRecovery == InitRecovery /\ [][NextRecovery]_vars /\ MonitorKeepsRunning

\* the pools of the source under selection on one chain and health checks on
\* both
NextBreaker ==
  \/ CallGetBestRPC("ethereum")
  \/ performHealthCheck
  \/ ProbeSucceeds
  \/ ProbeFails
  \/ PauseEnds
  \/ \E d \in CoarseSteps : Tick(d)

SpecBreaker == Init /\ [][NextBreaker]_vars

\* --------------------------------------------------------------- properties

\* the endpoints of the pool, as pairs of chain and position
Endpoints ==
  {ci \in ChainSet \X (1..2) : ci[2] <= Len(connections[ci[1]])}

EndpointAt(ci) == connections[ci[1]][ci[2]]

\* the endpoint of chain that holds the connection handle
EndpointOf(conn, chain, connection) ==
  CHOOSE e \in {conn[chain][i] : i \in 1..Len(conn[chain])} :
    e.connection = connection

\* C1: for every endpoint with capacity C, no more than floor(C * 0.8)
\* selections of it lie within the rolling window of one second that ends now.
RollingWindowCap ==
  \A ci \in Endpoints :
    Len(selections[EndpointAt(ci).url])
      <= safeLimit(EndpointAt(ci).maxRequestsPerSecond)

\* every endpoint of the chain is marked failed, and the pool is not empty
\* (C2 on the pools that have an endpoint)
CircuitBreakerOnNonEmptyPool ==
  (/\ lastCall.allFailed
   /\ lastCall.chain \in ChainSet
   /\ connections[lastCall.chain] # <<>>)
  => (lastCall.clears = 1 /\ lastCall.outcome = "NoHealthy")

\* C2: a getBestRPC call that finds every endpoint of its chain marked failed
\* clears the failed set and selects again exactly once, and it ends with an
\* endpoint or with NoHealthyEndpoint.
CircuitBreakerOnce ==
  lastCall.allFailed
  => (lastCall.clears = 1 /\ lastCall.outcome \in {"ok", "NoHealthy"})

\* C3: at the moment an executeWithRetry call returns the result it obtained
\* from endpoint E, E.errorCount is 0, E.healthy is true and E.url is not in
\* the failed set.
SuccessResetsErrorState ==
  [][\A p \in Callers :
       (calls[p].pc = "operation" /\ calls'[p].pc = "returned")
       => LET e == EndpointOf(connections', calls[p].chain, calls[p].rpc)
          IN e.errorCount = 0 /\ e.healthy /\ e.url \notin failedRPCs']_vars

\* a call has returned from an endpoint that the health monitor marked
\* unhealthy while the operation was in flight, and the endpoint is reset
SuccessAfterMarkedInFlight ==
  \E p \in Callers :
    /\ calls[p].pc = "returned"
    /\ calls[p].failedInFlight
    /\ LET e == EndpointOf(connections, calls[p].chain, calls[p].rpc)
       IN e.errorCount = 0 /\ e.healthy /\ e.url \notin failedRPCs

\* C4: an error whose message contains "Invalid" or "Not found" is raised at
\* once: the call that caught it is not asleep for a retry and runs no
\* further attempt.
NonRetryableRaisedAtOnce ==
  \A p \in Callers :
    isNonRetryable(calls[p].lastError) => calls[p].pc = "raised"

\* C5 as stated: a call that raised after the operation threw nothing but
\* rate-limit errors has invoked the operation exactly maxRetries times.
ExhaustionInvokesMaxRetriesTimes ==
  \A p \in Callers :
    (calls[p].pc = "raised" /\ calls[p].rlOnly /\ calls[p].opCalls >= 1)
    => calls[p].opCalls = calls[p].maxRetries

\* C5 as amended: such a call has run exactly maxRetries attempts, it has
\* invoked the operation once in every attempt whose endpoint selection
\* succeeded (maxRetries times when every selection succeeded), and it raises
\* the error of its last attempt.
ExhaustionRunsMaxRetriesAttempts ==
  \A p \in Callers :
    (calls[p].pc = "raised" /\ calls[p].rlOnly /\ calls[p].opCalls >= 1)
    => /\ calls[p].attempt = calls[p].maxRetries
       /\ calls[p].opCalls + calls[p].selFails = calls[p].maxRetries
       /\ calls[p].opCalls = calls[p].maxRetries
            => isRateLimit(calls[p].lastError)

\* a call with maxRetries 3 has raised a rate-limit error after three
\* invocations of the operation
ExhaustedAfterThreeInvocations ==
  \E p \in Callers :
    /\ calls[p].pc = "raised"
    /\ calls[p].rlOnly
    /\ calls[p].maxRetries = 3
    /\ calls[p].opCalls = 3
    /\ isRateLimit(calls[p].lastError)

\* every attempt of the call reached the operation, which threw a rate-limit
\* error each time, and the call has raised
RateLimitedThroughout(p) ==
  /\ calls[p].pc = "raised"
  /\ calls[p].rlOnly
  /\ calls[p].opCalls = calls[p].maxRetries

HealthHysteresis ==
  \A ci \in Endpoints :
    (~EndpointAt(ci).healthy \/ EndpointAt(ci).url \in failedRPCs)
    => probeFailures[EndpointAt(ci).url] >= UnhealthyThreshold

\* the monitor has marked an endpoint after its fifth failed probe in a row
MarkedAfterFiveFailures ==
  \E ci \in Endpoints :
    /\ ~EndpointAt(ci).healthy
    /\ EndpointAt(ci).url \in failedRPCs
    /\ probeFailures[EndpointAt(ci).url] = UnhealthyThreshold

\* the rate counter of the endpoint allows a request now
RateAllows(e) ==
  \/ e.url \notin DOMAIN requestCounters
  \/ Now - requestCounters[e.url].lastReset >= RateWindow
  \/ requestCounters[e.url].count < safeLimit(e.maxRequestsPerSecond)

Eligible(e) == e.healthy /\ e.url \notin failedRPCs /\ RateAllows(e)

\* a comes no later than b under (priority ascending, requestCount ascending)
NoLater(a, b) ==
  \/ a.priority < b.priority
  \/ a.priority = b.priority /\ a.requestCount <= b.requestCount

\* C8: the endpoint a getBestRPC call selects is eligible (healthy, not in
\* the failed set, allowed by its rate counter) and no eligible endpoint of
\* the chain comes before it under (priority, requestCount).
SelectionOrder ==
  [][\A ci \in Endpoints :
       connections'[ci[1]][ci[2]].requestCount = EndpointAt(ci).requestCount + 1
       => /\ Eligible(EndpointAt(ci))
          /\ \A cj \in Endpoints :
               (cj[1] = ci[1] /\ Eligible(EndpointAt(cj)))
               => NoLater(EndpointAt(ci), EndpointAt(cj))]_vars

\* the call selected the endpoint of priority 1 although the endpoint of
\* priority 2 is first in the list, eligible and less used
PriorityBeatsUsage ==
  /\ lastCall.outcome = "ok"
  /\ lastCall.url = "urlB"
  /\ connections["ethereum"][2].priority < connections["ethereum"][1].priority
  /\ connections["ethereum"][2].requestCount
       > connections["ethereum"][1].requestCount
  /\ Eligible(connections["ethereum"][1])

\* the burst of C9: A has priority 1, B priority 2, and every selection of the
\* two since the pool was built lies in their current rate window
InBurst ==
  /\ connections["ethereum"][1].priority = 1
  /\ connections["ethereum"][2].priority = 2
  /\ \A i \in 1..2 :
       connections["ethereum"][i].requestCount
         = requestCounters[connections["ethereum"][i].url].count

BurstCalls ==
  connections["ethereum"][1].requestCount
    + connections["ethereum"][2].requestCount

\* C9: of the first 5 getBestRPC calls of a burst the first 4 go to A and the
\* 5th goes to B, which ends with A.requestCount = 4 and B.requestCount = 1.
BurstRouting ==
  (InBurst /\ BurstCalls <= 5)
  => /\ connections["ethereum"][1].requestCount = Min(BurstCalls, 4)
     /\ connections["ethereum"][2].requestCount = BurstCalls - Min(BurstCalls, 4)

\* the burst after its fifth call
BurstDone ==
  /\ InBurst
  /\ BurstCalls = 5
  /\ connections["ethereum"][1].requestCount = 4
  /\ connections["ethereum"][2].requestCount = 1
  /\ lastCall.url = "urlB"

\* the sleep before the next attempt in a call that handles a rate-limit error
NoWaitHint(error) ==
  /\ error.retryAfter = <<>>
  /\ ~(includes(error.message, TxtWait) /\ FirstDigits(error.message) # <<>>)

\* C10: the sleep executeWithRetry performs for a rate-limit error before the
\* next attempt lies in [5000 ms, 60000 ms], and is 5000 ms when the error
\* carries no wait hint.
RateLimitWaitClamped ==
  \A p \in Callers :
    (calls[p].pc = "sleep" /\ isRateLimit(calls[p].lastError))
    => /\ ~calls[p].sleepMs.nan
       /\ calls[p].sleepMs.v >= MinWait
       /\ calls[p].sleepMs.v <= MaxWait
       /\ NoWaitHint(calls[p].lastError) => calls[p].sleepMs.v = DefaultWait

\* C11: when the operation of an executeWithRetry call throws a rate-limit
\* error on endpoint E, the url of E is in the failed set once the catch block
\* has handled the error.
RateLimitMarksFailed ==
  [][\A p \in Callers :
       (/\ calls[p].pc = "operation"
        /\ calls'[p].pc \in {"sleep", "raised"}
        /\ isRateLimit(calls'[p].lastError))
       => calls[p].rpc \in failedRPCs']_vars

\* C12: once initialize() has run, the pool of every chain configured at
\* startup holds at least one endpoint.
PoolNeverEmpty ==
  initialized => \A chain \in ChainSet : connections[chain] # <<>>

\* the chain's configuration holds a descriptor for the url
HasDescriptor(chain, url) ==
  /\ chain \in DOMAIN rpcConfigs
  /\ \E i \in 1..Len(rpcConfigs[chain]) : rpcConfigs[chain][i].url = url

\* C13: once removeRPC(chain, url) has returned, the endpoint of that url is
\* not selected any more: no call increments the requestCount of an endpoint
\* whose descriptor is removed.
RemovedNeverSelected ==
  [][\A ci \in Endpoints :
       ~HasDescriptor(ci[1], EndpointAt(ci).url)
       => connections'[ci[1]][ci[2]].requestCount
            = EndpointAt(ci).requestCount]_vars

\* this.rpcConfigs has gained a descriptor in the step
IsAdd ==
  \E c \in DOMAIN rpcConfigs' :
    \/ c \notin DOMAIN rpcConfigs
    \/ Len(rpcConfigs'[c]) > Len(rpcConfigs[c])

\* the urls of the pooled endpoints, chain by chain and in list order
PoolUrls(conn) ==
  [c \in DOMAIN conn |-> [i \in 1..Len(conn[c]) |-> conn[c][i].url]]

\* C14: addRPC appends a descriptor to the configuration and leaves the
\* endpoint pool, the rate counters and the failed set as they are; the pool
\* holds the endpoints built at startup in every step, so later getBestRPC
\* calls select among the same endpoints as without the addRPC call.
AddRPCLeavesPoolAlone ==
  [][/\ IsAdd => /\ connections' = connections
                 /\ requestCounters' = requestCounters
                 /\ failedRPCs' = failedRPCs
     /\ PoolUrls(connections') = PoolUrls(connections)]_vars

\* a descriptor of priority 0 is configured for ethereum, the pool holds the
\* two endpoints built at startup, and getBestRPC returned the endpoint of
\* priority 1
AddedDescriptorNotPooled ==
  /\ \E i \in 1..Len(rpcConfigs["ethereum"]) :
       /\ rpcConfigs["ethereum"][i].url = "urlN"
       /\ rpcConfigs["ethereum"][i].priority = 0
  /\ Len(connections["ethereum"]) = 2
  /\ "urlN" \notin DOMAIN requestCounters
  /\ lastCall.outcome = "ok"
  /\ lastCall.url = "urlA"

\* the call is handling the error getBestRPC threw for want of an eligible
\* endpoint
CaughtNoHealthy(p) ==
  /\ calls[p].pc \in {"sleep", "raised"}
  /\ calls[p].chain \in ChainSet
  /\ calls[p].lastError = SelectionError("NoHealthy", calls[p].chain)

\* C15 as stated: when the endpoint selection of an executeWithRetry call
\* fails with NoHealthyEndpoint, the call raises it at once: it does not sleep
\* and makes no further attempt.
NoHealthyRaisedAtOnce ==
  \A p \in Callers : CaughtNoHealthy(p) => calls[p].pc = "raised"

\* C15 as amended: the call treats NoHealthyEndpoint like any unclassified
\* error: before its last attempt it sleeps 500 ms * attempt and selects
\* again, and it raises the error only when its last attempt failed.
NoHealthyRetriedWithBackoff ==
  \A p \in Callers :
    CaughtNoHealthy(p)
    => /\ calls[p].pc = "sleep"
          => /\ calls[p].attempt < calls[p].maxRetries
             /\ calls[p].sleepMs = Num(500 * calls[p].attempt)
       /\ calls[p].pc = "raised" => calls[p].attempt = calls[p].maxRetries

\* a call whose first selection failed with NoHealthyEndpoint has slept 500 ms
\* and runs the operation in its second attempt
NoHealthyThenSelected ==
  \E p \in Callers :
    /\ calls[p].pc = "operation"
    /\ calls[p].attempt = 2
    /\ calls[p].selFails = 1
    /\ calls[p].slept = 500
    /\ calls[p].lastError = SelectionError("NoHealthy", calls[p].chain)

\* the health monitor has marked every endpoint of the chain as failed
AllMarkedByMonitor(chain) ==
  /\ connections[chain] # <<>>
  /\ \A i \in 1..Len(connections[chain]) :
       /\ ~connections[chain][i].healthy
       /\ connections[chain][i].url \in failedRPCs

\* C16: a getBestRPC call for a chain whose endpoints the health monitor has
\* all marked failed resets the failed set and returns the connection of one
\* of them, provided the rate counter of one of them allows a request.
CircuitBreakerRecovers ==
  [][\A chain \in ChainSet :
       (/\ AllMarkedByMonitor(chain)
        /\ \E i \in 1..Len(connections[chain]) :
             RateAllows(connections[chain][i])
        /\ lastCall' # lastCall
        /\ lastCall'.chain = chain)
       => lastCall'.outcome = "ok"]_vars

\* C17: a cycle of the health monitor starts (its first probe is issued, the
\* start is recorded) only when the last executed cycle started at least
\* healthCheckInterval / 2 earlier; an invocation before that changes nothing.
HealthCheckDebounce ==
  [][/\ lastHealthCheck' = Now /\ lastHealthCheck # Now
          => Now - lastHealthCheck >= healthCheckInterval \div 2
     /\ monitor.pc = "idle" /\ monitor'.pc # "idle"
          => /\ Now - lastHealthCheck >= healthCheckInterval \div 2
             /\ lastHealthCheck' = Now
     /\ (monitor.pc = "idle"
         /\ Now - lastHealthCheck < healthCheckInterval \div 2)
          => /\ monitor'.pc = "idle"
             /\ connections' = connections
             /\ failedRPCs' = failedRPCs]_vars

\* the monitor is idle after a cycle that counted a failed probe, and the
\* cycle started 2 s ago: an invocation now falls into the debounce window
IdleWithinDebounce ==
  /\ monitor.pc = "idle"
  /\ Now - lastHealthCheck = 2 * ChainPause
  /\ \E u \in Urls : probeFailures[u] = 1

\* the registered service name lists the registered service dep among its
\* dependencies
DependsOn(sm, name, dep) ==
  /\ name \in DOMAIN sm.dependencies
  /\ \E i \in 1..Len(sm.dependencies[name]) : sm.dependencies[name][i] = dep

RECURSIVE ReachesIn(_, _, _, _)
\* a chain of at most k dependencies leads from name to dep
ReachesIn(sm, name, dep, k) ==
  /\ k > 0
  /\ \/ DependsOn(sm, name, dep)
     \/ \E via \in Names :
          DependsOn(sm, name, via) /\ ReachesIn(sm, via, dep, k - 1)

\* no registered service depends on itself, directly or not
Acyclic(sm) == \A name \in Names : ~ReachesIn(sm, name, name, Cardinality(Names))

\* the position of a name in a list, 0 when it is not in it
Position(list, name) ==
  IF \E i \in 1..Len(list) : list[i] = name
  THEN CHOOSE i \in 1..Len(list) : list[i] = name
  ELSE 0

\* C18: whenever the registered services are acyclic, getInitializationOrder
\* lists each of them exactly once and after all the services it depends on;
\* no service was constructed before each of its dependencies had finished
\* initializing, and no service finished initializing more than once.
DependencyOrder ==
  /\ (serviceManager.services # <<>> /\ Acyclic(serviceManager)) =>
       LET r == getInitializationOrder(serviceManager)
       IN /\ ~r.thrown
          /\ Len(r.order) = Len(serviceManager.services)
          /\ \A name \in Names :
               has(serviceManager, name) =>
                 /\ Cardinality({i \in 1..Len(r.order) : r.order[i] = name})
                      = 1
                 /\ \A dep \in Names :
                      DependsOn(serviceManager, name, dep) =>
                        /\ Position(r.order, dep) > 0
                        /\ Position(r.order, dep) < Position(r.order, name)
  /\ events.early = {}
  /\ \A name \in Names : events.completed[name] <= 1

\* initializeAll() has initialized every service of a registry in which the
\* first registered service depends on the others
InitializedAgainstRegistration ==
  /\ \E t \in Tasks : tasks[t].kind = "initializeAll" /\ tasks[t].pc = "done"
  /\ Acyclic(serviceManager)
  /\ DependsOn(serviceManager, "a", "b")
  /\ DependsOn(serviceManager, "b", "c")
  /\ serviceManager.initialized = Names
  /\ \A name \in Names : events.completed[name] = 1

\* a call of shutdown() has ended, with its result or with an Error
ShutdownEnded(t) ==
  tasks[t].kind = "shutdown" /\ tasks[t].pc \in {"done", "raised"}

\* C19: once a call of shutdown() has ended, shutdown() was called on every
\* service that finished initializing and defines it, also after the
\* shutdown() of another service threw, and the registered, the initialized
\* and the initializing services are all empty.
GracefulShutdown ==
  \A t \in Tasks :
    ShutdownEnded(t) =>
      /\ \A name \in HasShutdown :
           events.completed[name] > 0 =>
             \E i \in 1..Len(events.shutdowns) : events.shutdowns[i] = name
      /\ serviceManager.services = <<>>
      /\ serviceManager.initialized = {}
      /\ serviceManager.initializing = {}

\* the latest operation on the session was a clearSession, called directly,
\* by the wrapper of a command or for a session older than its lifetime
Cleared == sessionOp.op \in {"clearSession", "command", "expired"}

\* after a clearSession the state is 'idle' and the data is empty
ClearedIsIdle ==
  Cleared => /\ getState(session) = "idle"
             /\ getData(session, Null) = [whole |-> TRUE, value |-> <<>>]

\* C20 as stated: after setState(ctx, s, d), getState(ctx) is s and
\* getData(ctx, k) is d[k] for every key k of d; after a clearSession the
\* state is 'idle' and the data is empty.
SessionRoundTrip ==
  /\ sessionOp.op = "setState" =>
       /\ getState(session) = sessionOp.state
       /\ \A k \in DOMAIN sessionOp.data :
            getData(session, Str(k))
              = [whole |-> FALSE, value |-> Str(sessionOp.data[k])]
  /\ ClearedIsIdle

\* C20, amended: after setState(ctx, s, d), getState(ctx) is s when s is not
\* the empty string and 'idle' when it is; getData(ctx, k) is d[k] for every
\* key k of d that is not the empty string, and the whole data object, which
\* holds d, for the empty key; after a clearSession the state is 'idle' and
\* the data is empty.
SessionRoundTripOfNames ==
  /\ sessionOp.op = "setState" =>
       /\ getState(session)
            = (IF sessionOp.state = "" THEN "idle" ELSE sessionOp.state)
       /\ \A k \in DOMAIN sessionOp.data :
            IF k = ""
            THEN /\ getData(session, Str(k)).whole
                 /\ getData(session, Str(k)).value[k] = sessionOp.data[k]
            ELSE getData(session, Str(k))
                   = [whole |-> FALSE, value |-> Str(sessionOp.data[k])]
  /\ ClearedIsIdle

\* a setState has replaced the value that an earlier setState stored
RoundTripAfterMerge ==
  /\ sessionOp.op = "setState"
  /\ sessionOp.state = "awaiting_wallet_name"
  /\ sessionOp.data = [k \in {"name"} |-> "v2"]
  /\ DOMAIN session.data = {"", "name"}

\* the withdrawals under way and done: those whose YES was accepted
Withdrawals ==
  {bot.sent[i] : i \in 1..Len(bot.sent)}
    \cup {[id |-> bot.handlers[h].id, age |-> bot.handlers[h].age,
           text |-> bot.handlers[h].text] :
            h \in {g \in Handlers : bot.handlers[g].pc = "processing"}}

BuyConfirmationExpires ==
  \A i \in 1..Len(bot.executed) :
    bot.executed[i].age <= ConfirmationLifetime

FailoverWithinCall ==
  ~(/\ calls["p1"].pc = "raised"
    /\ calls["p1"].selFails = 0
    /\ \E i \in 1..Len(connections["ethereum"]) :
         /\ connections["ethereum"][i].url = "urlB"
         /\ connections["ethereum"][i].healthy
         /\ "urlB" \notin failedRPCs)

\* the representative the health check is to pick in a list of endpoints: the
\* first one in list order that is healthy, else the first one
Representative(conns) ==
  LET healthy == {i \in 1..Len(conns) : conns[i].healthy}
  IN IF healthy # {}
     THEN CHOOSE i \in healthy : \A j \in healthy : i <= j
     ELSE 1

\* a step of the cycle that begins the probe of a chain probes the
\* representative of that chain, and the step that ends a probe leaves the
\* other endpoints of the probed chain as they are
ProbeOfRepresentative ==
  /\ (monitor.pc # "probe" /\ monitor'.pc = "probe") =>
       LET conns == connections'[Chains[monitor'.chain]]
       IN /\ monitor'.active \in 1..Len(conns)
          /\ monitor'.active = Representative(conns)
  /\ (monitor.pc = "probe" /\ monitor'.pc = "pause") =>
       /\ Len(connections'[ProbedChain]) = Len(connections[ProbedChain])
       /\ \A i \in 1..Len(connections[ProbedChain]) :
            i # monitor.active =>
              LET before == connections[ProbedChain][i]
                  after == connections'[ProbedChain][i]
              IN /\ after.healthy = before.healthy
                 /\ after.errorCount = before.errorCount
                 /\ after.url = before.url
                 /\ (after.url \in failedRPCs') = (before.url \in failedRPCs)

\* a cycle goes through the chains in order and leaves none out
CycleProbesEveryChain ==
  /\ (monitor.pc = "idle" /\ monitor'.pc = "probe") => monitor'.chain = 1
  /\ (monitor.pc = "pause" /\ monitor'.pc = "probe") =>
       monitor'.chain = monitor.chain + 1
  /\ (monitor.pc = "pause" /\ monitor'.pc = "idle") =>
       monitor.chain = Len(Chains)

\* on the chains that have an endpoint the health check keeps to its
\* representative and to its frame
RepresentativeOfPooledChain == [][ProbeOfRepresentative]_vars

\* C25: in an executed health-check cycle exactly one endpoint of each chain
\* is probed, the first healthy one in list order or else the first one, and
\* the probe leaves the healthy flag, the errorCount and the FailedSet
\* membership of the other endpoints of the chain unchanged.
HealthCheckRepresentative ==
  [][CycleProbesEveryChain /\ ProbeOfRepresentative]_vars

\* the endpoint at position ci[2] of chain ci[1] is marked unhealthy
MarkedUnhealthy(ci) ==
  /\ ci \in Endpoints
  /\ ~EndpointAt(ci).healthy
  /\ EndpointAt(ci).url \in failedRPCs

\* the endpoint is healthy again and getBestRPC can select it
Recovered(ci) ==
  /\ ci \in Endpoints
  /\ EndpointAt(ci).healthy
  /\ EndpointAt(ci).url \notin failedRPCs

\* C26: while health-check cycles keep running, every endpoint that was
\* marked unhealthy, at whatever position of its chain's list, and whose
\* liveness probe would succeed is eventually marked healthy again and is
\* selectable.
RecoveryLiveness ==
  \A ci \in ChainSet \X (1..2) : MarkedUnhealthy(ci) ~> Recovered(ci)

\* every endpoint in the pool of the chain has its url in the failed set
EveryEndpointFailed(chain) ==
  \A i \in 1..Len(connections[chain]) :
    connections[chain][i].url \in failedRPCs

\* C27: a getBestRPC(chain) call clears the failed set only when every
\* endpoint of that chain is in it; a call for a chain whose endpoints are
\* merely rate-limited removes no url from the failed set, that of another
\* chain's failed endpoint in particular.
CircuitBreakerLocality ==
  [][\A chain \in ChainSet :
       (/\ lastCall' # lastCall
        /\ lastCall'.chain = chain
        /\ ~EveryEndpointFailed(chain))
       => failedRPCs \subseteq failedRPCs']_vars

\* C28: every endpoint of a pool whose url is in the failed set has the
\* healthy flag false, and so the healthy count getStatus() reports for a
\* chain equals the healthyEndpoints getChainStats(chain) reports.
FailedSetAgreesWithHealth ==
  /\ \A ci \in Endpoints :
       EndpointAt(ci).url \in failedRPCs => ~EndpointAt(ci).healthy
  /\ \A chain \in DOMAIN connections :
       getStatus(chain).healthy = getChainStats(chain).healthyEndpoints

\* one chain is reported with a failed endpoint and no healthy one, the other
\* with its endpoint healthy, by both reports
ReportedFailedAndHealthy ==
  /\ \E chain \in DOMAIN connections :
       /\ getStatus(chain).failed = 1
       /\ getStatus(chain).healthy = 0
       /\ getChainStats(chain).healthyEndpoints = 0
       /\ \E i \in 1..Len(connections[chain]) :
            connections[chain][i].url \in failedRPCs
  /\ \E chain \in DOMAIN connections :
       /\ getStatus(chain).healthy = 1
       /\ getChainStats(chain).healthyEndpoints = 1

\* the outcomes with which a getBestRPC call ends: a connection, one of the
\* two errors the function throws, or the RangeError of the runtime
Outcomes == {"ok", "NoHealthy", "NotInitialized", "RangeError"}

\* C29: every getBestRPC(chain) call ends by returning a connection or by
\* raising an error after at most one circuit-breaker re-selection, in every
\* pool state, that of a configured chain with an empty endpoint list
\* included.
SelectionTerminates ==
  lastCall.chain # "none" =>
    /\ lastCall.outcome \in Outcomes
    /\ lastCall.clears <= 1

\* the services the registered dependency lists lead to from those of set
RECURSIVE DependenciesOf(_, _, _)
DependenciesOf(sm, set, steps) ==
  LET direct == UNION {{sm.dependencies[n][i] :
                          i \in 1..Len(sm.dependencies[n])} :
                        n \in set \cap DOMAIN sm.dependencies}
  IN IF steps = 0 THEN {}
     ELSE direct \cup DependenciesOf(sm, direct, steps - 1)

\* the registered dependency graph has a cycle
DependencyCycle(sm) ==
  \E n \in Names : n \in DependenciesOf(sm, {n}, Cardinality(Names))

\* C30: a getService or initializeService call raises 'Circular dependency
\* detected' only if the registered dependency graph contains a cycle, also
\* while calls of other callers are suspended in a pending initialize(); and
\* after a failed initialization the service is neither in the initializing
\* set nor in the initialized set.
NoSpuriousCycleError ==
  [][\A t \in Tasks :
       /\ (/\ tasks[t].pc # "raised"
           /\ tasks'[t].pc = "raised"
           /\ tasks'[t].error = "circular")
          => DependencyCycle(serviceManager)
       /\ (tasks[t].pc = "init" /\ tasks'[t].pc = "raised")
          => LET name == tasks[t].stack[Len(tasks[t].stack)].name
             IN /\ name \notin serviceManager'.initializing
                /\ name \notin serviceManager'.initialized]_vars

====
